---- MODULE Spec2Model ----
\* Verification model of the ingestion engine of tinosingh/peanut:
\*   - the embedding worker      (src/src/ingest/embedding_worker.py)
\*   - the operator retry reset  (src/src/tui/screens/intake.py)
\*   - the ingest coordinator    (src/src/ingest/db.py, src/src/ingest/main.py)
\*   - the drop-zone watcher     (src/src/ingest/watcher.py)
\*   - the outbox drainer        (src/src/ingest/outbox_worker.py)
\*   - the search endpoint       (src/src/api/search.py, src/src/shared/rrf.py,
\*                                src/src/shared/reranker.py)
\*   - the entities endpoints    (src/src/api/entities.py)
\*   - the chunker               (src/src/ingest/chunker.py)
\*   - the entity-resolution scorer (src/src/ingest/entity_resolution.py)
\*
\* The relational store is modelled by its committed tables.  A block
\* `async with pool.connection() as conn:` is one transaction (the pool hands
\* out non-autocommit connections, src/src/shared/db.py:32-42): its writes
\* become visible together when the block is left normally and are rolled
\* back when the block is left by an exception or by cancellation.
EXTENDS Integers, FiniteSets, Sequences, Bags, TLC

\* ---------------------------------------------------------------- bounds
\* Number of chunk rows in the chunks table of the embedding specification.
NChunks == 2
\* Number of embedding workers polling the same store (double launch).
NWorkers == 2
\* retry_max parameter of embedding_worker (any positive integer; default 5).
retry_max == 2
\* Longest run of consecutive iterations of one worker that end in its outer
\* exception handler.
MaxConsecutiveErrors == 1

\* Number of files that reach the intake.
NFiles == 2
\* Number of concurrent intake tasks (callers of ingest_document).
NTasks == 1
\* Number of ingest_document calls that draw a document id.
MaxIngests == 2
\* Number of events in the outbox of the drainer specification.
NEvents == 2
\* Number of faults (store or graph failures, cancellations) the drainer
\* meets in a behaviour.
MaxFaults == 5

\* Number of embedded, unflagged chunk rows the search endpoint can return.
NSearchChunks == 6
\* Number of API requests answered in a behaviour.
MaxRequests == 2
\* Latest tick of the clock.
MaxClock == 1
\* Ids that occur in the ranked lists given to rrf_merge.
NRankIds == 3
\* Longest ranked list given to rrf_merge.
MaxRankLen == 2
\* Most sentences of a text given to chunk_text.
MaxSentences == 2
\* Most words of a sentence.
MaxWords == 2
\* Most pairs of a list given to check_canary_guard.
MaxPairs == 2

\* ------------------------------------------------------ program constants
EMBED_BATCH_SIZE == 8
CONSECUTIVE_ERROR_THRESHOLD == 10
OUTBOX_BATCH_SIZE == 50
OUTBOX_MAX_ATTEMPTS == 10
FALKORDB_ERROR_THRESHOLD == 5
candidate_limit == 50
MAX_CHUNK_CHARS == 2000
\* the production threshold, in hundredths
PRODUCTION_THRESHOLD == 90
\* config key rrf_k (any non-negative integer; default 60)
rrf_k == 1
\* Values the operator gives config key search_cache_ttl.
SearchTtls == {1, 2}
\* Values the operator gives bm25_weight and vector_weight, in hundredths.
Weights == {<<50, 50>>, <<70, 30>>}
\* _DEFAULTS of the config reader.
DefaultConfig == [search_cache_ttl |-> 60, bm25_weight |-> 50, vector_weight |-> 50]

ChunkIds == 1..NChunks
Workers == 1..NWorkers
NULL == "null"
Vec == "vec"

VARIABLES
    chunks,              \* chunks table: id -> [status, retry_count, embedding]
    w_pc,                \* worker -> position in embedding_worker's loop
    w_ids,               \* worker -> ids claimed and not yet written back
    w_retry_counts,      \* worker -> retry_counts dict of the iteration
    consecutive_errors,  \* worker -> consecutive_errors local
    documents,           \* documents table: set of committed rows
    persons,             \* persons table: email -> display_name
    outbox,              \* outbox table: sequence of committed rows
    dead_letter,         \* dead_letter table: set of [file_path, error]
    write_failed_log,    \* paths logged as dead_letter_write_failed
    next_id,             \* number of document ids drawn so far (uuid4)
    t_pc,                \* task -> position in _handle_file / ingest_document
    t_call,              \* task -> the call in progress (its arguments)
    pause_sentinel,      \* the file <drop zone>/.pause exists
    zone,                \* watched files present in the drop zone
    changes,             \* paths changed since awatch last yielded
    wt_pc,               \* position of watch_drop_zone
    wt_batch,            \* changes of the yielded batch not yet iterated
    dispatched,          \* paths handed to handle_file so far
    graph,               \* graph store: [nodes, edges]
    dr_pc,               \* position of outbox_worker
    dr_rows,             \* rows of the selected batch not yet iterated
    falkordb_consecutive_errors,  \* local of outbox_worker
    applies,             \* outbox row -> calls of _apply_outbox_event made
    written,             \* outbox row -> applications of its graph mutation
    dr_faults,           \* faults the drainer has met so far
    cache,               \* _cache of the search endpoint: key -> entry
    clock,               \* time.monotonic() / now(), in ticks
    config,              \* config table: key -> value
    response,            \* the response the API returned last
    served,              \* number of API requests answered so far
    deletion_log,        \* lines of ./data/deletion_log.jsonl
    args,                \* arguments of the pure function called last
    result,              \* what that call returned
    pool,                \* the module global _pool of shared/db.py (0 = None)
    pools,               \* state of every AsyncConnectionPool object created
    pl_task              \* task -> position in get_pool / close_pool, handle held

embedVars == <<chunks, w_pc, w_ids, w_retry_counts, consecutive_errors>>
ingestVars == <<documents, persons, outbox, dead_letter, write_failed_log,
                next_id, t_pc, t_call>>
watchVars == <<pause_sentinel, zone, changes, wt_pc, wt_batch, dispatched>>
drainVars == <<graph, dr_pc, dr_rows, falkordb_consecutive_errors, applies,
               written, dr_faults>>
apiVars == <<cache, clock, config, response, served, deletion_log>>
fnVars == <<args, result>>
poolVars == <<pool, pools, pl_task>>
vars == <<chunks, w_pc, w_ids, w_retry_counts, consecutive_errors,
          documents, persons, outbox, dead_letter, write_failed_log,
          next_id, t_pc, t_call,
          pause_sentinel, zone, changes, wt_pc, wt_batch, dispatched,
          graph, dr_pc, dr_rows, falkordb_consecutive_errors, applies, written,
          dr_faults,
          cache, clock, config, response, served, deletion_log,
          args, result, pool, pools, pl_task>>
\* What the embedding specification leaves alone.
embedFrame == <<ingestVars, watchVars, drainVars, apiVars, fnVars, poolVars>>

\* A chunk row as the coordinator creates it: pending, retry 0, no vector.
NewChunk(doc_id) ==
    [document_id |-> doc_id, status |-> "pending", retry_count |-> 0,
     embedding |-> NULL]

\* The document the chunk rows of the embedding specification belong to.
LegacyDocument == [id |-> 0, source_path |-> 0, sha256 |-> 0]

\* ------------------------------------------------------ embedding worker

\* Rows locked by a claim statement whose transaction has not ended yet.
Locked == UNION {w_ids[w] : w \in {x \in Workers : w_pc[x] = "claim_tx"}}

\* Mutant: the subselect takes no row lock, rows of a claim in flight are
\* selected again.
Claimable_NoRowLock == {c \in ChunkIds : chunks[c].status = "pending"}

\* Mutant: the subselect also matches failed rows.
Claimable_AlsoFailed ==
    {c \in ChunkIds : chunks[c].status \in {"pending", "failed"} /\ c \notin Locked}

\* WHERE embedding_status = 'pending' ... FOR UPDATE SKIP LOCKED
Claimable == {c \in ChunkIds : chunks[c].status = "pending" /\ c \notin Locked}

\* ORDER BY id LIMIT EMBED_BATCH_SIZE
SelectBatch(S) == {c \in S : Cardinality({d \in S : d < c}) < EMBED_BATCH_SIZE}

\* "failed" if new_count >= retry_max else "pending"
StatusAfterRetry(n) == IF n >= retry_max THEN "failed" ELSE "pending"

\* Mutant: the success UPDATE sets the vector and leaves the status alone.
DoneRow_StatusKept(row) == [row EXCEPT !.embedding = Vec]

\* SET embedding = %s, embedded_at = now(), embedding_status = 'done'
DoneRow(row) == [row EXCEPT !.embedding = Vec, !.status = "done"]

\* SET embedding_status = %s, retry_count = %s
RetryRow(row, n) == [row EXCEPT !.status = StatusAfterRetry(n), !.retry_count = n]

\* The chunks a worker holds: claimed (or locked by its claim) and not yet
\* written back by it.
Held(w) == IF w_pc[w] \in {"claim_tx", "embed", "fallback", "apply"}
           THEN w_ids[w] ELSE {}

\* except Exception (outer): consecutive_errors += 1; at the threshold the
\* worker sleeps the backoff and resets the counter, otherwise it sleeps
\* 5 poll intervals.  The iteration is over: the locals are dropped.
OuterExcept(w) ==
    /\ consecutive_errors[w] < MaxConsecutiveErrors
    /\ consecutive_errors' = [consecutive_errors EXCEPT ![w] =
           IF @ + 1 >= CONSECUTIVE_ERROR_THRESHOLD THEN 0 ELSE @ + 1]
    /\ w_pc' = [w_pc EXCEPT ![w] = "poll"]
    /\ w_ids' = [w_ids EXCEPT ![w] = {}]
    /\ w_retry_counts' = [w_retry_counts EXCEPT ![w] = <<>>]

\* End of an iteration without an exception reaching the outer handler.
IterationEnd(w, ce) ==
    /\ consecutive_errors' = [consecutive_errors EXCEPT ![w] = ce]
    /\ w_pc' = [w_pc EXCEPT ![w] = "poll"]
    /\ w_ids' = [w_ids EXCEPT ![w] = {}]
    /\ w_retry_counts' = [w_retry_counts EXCEPT ![w] = <<>>]

\* The claim statement executes inside its transaction: the selected rows are
\* locked and updated, not yet committed.
ClaimExecute(w) ==
    /\ w_pc[w] = "poll"
    /\ LET rows == SelectBatch(Claimable) IN
       /\ w_pc' = [w_pc EXCEPT ![w] = "claim_tx"]
       /\ w_ids' = [w_ids EXCEPT ![w] = rows]
       /\ w_retry_counts' = [w_retry_counts EXCEPT ![w] =
              [c \in rows |-> chunks[c].retry_count]]
    /\ UNCHANGED <<chunks, consecutive_errors>>

\* The claim transaction commits.  No rows: sleep and continue.
ClaimCommit(w) ==
    /\ w_pc[w] = "claim_tx"
    /\ chunks' = [c \in ChunkIds |->
          IF c \in w_ids[w] THEN [chunks[c] EXCEPT !.status = "processing"]
          ELSE chunks[c]]
    /\ IF w_ids[w] = {}
       THEN IterationEnd(w, consecutive_errors[w])
       ELSE /\ w_pc' = [w_pc EXCEPT ![w] = "embed"]
            /\ UNCHANGED <<w_ids, w_retry_counts, consecutive_errors>>

\* The claim fails in the store (no connection, statement error): rollback.
ClaimFail(w) ==
    /\ w_pc[w] \in {"poll", "claim_tx"}
    /\ OuterExcept(w)
    /\ UNCHANGED chunks

\* call_ollama_embed returns one vector per text and the vectors are written
\* in one transaction, which commits: consecutive_errors = 0.
EmbedOk(w) ==
    /\ w_pc[w] = "embed"
    /\ chunks' = [c \in ChunkIds |->
          IF c \in w_ids[w] THEN DoneRow(chunks[c]) ELSE chunks[c]]
    /\ IterationEnd(w, 0)

\* call_ollama_embed returns the vectors and writing them fails: the
\* transaction is rolled back and the exception is caught by
\* `except Exception` (line 186), which calls _apply_retry_updates with the
\* retry_counts as they are.
WriteFail(w) ==
    /\ w_pc[w] = "embed"
    /\ w_pc' = [w_pc EXCEPT ![w] = "apply"]
    /\ UNCHANGED <<chunks, w_ids, w_retry_counts, consecutive_errors>>

\* call_ollama_embed raises something that is no HTTPStatusError (connection
\* error, timeout), or returns a malformed body (KeyError, or a wrong number
\* of vectors: zip(strict=True) raises inside the write transaction, which is
\* rolled back): `except Exception` (line 186).
EmbedOtherError(w) ==
    /\ w_pc[w] = "embed"
    /\ w_pc' = [w_pc EXCEPT ![w] = "apply"]
    /\ UNCHANGED <<chunks, w_ids, w_retry_counts, consecutive_errors>>

\* Mutant: the bumped counts start again from 0.
increment_retries_FromZero(w) == [c \in DOMAIN w_retry_counts[w] |-> 0]

\* _increment_retries: retry_counts[cid] += 1 for every claimed id.
increment_retries(w) == [c \in DOMAIN w_retry_counts[w] |-> w_retry_counts[w][c] + 1]

\* call_ollama_embed raises HTTPStatusError.  is_context: status 400 with a
\* context marker.  Context error on a batch of more than one chunk: fall
\* back to one chunk at a time; otherwise bump retry_counts and write them.
EmbedHttpError(w, is_context_error) ==
    /\ w_pc[w] = "embed"
    /\ IF is_context_error /\ Cardinality(w_ids[w]) > 1
       THEN /\ w_pc' = [w_pc EXCEPT ![w] = "fallback"]
            /\ UNCHANGED w_retry_counts
       ELSE /\ w_pc' = [w_pc EXCEPT ![w] = "apply"]
            /\ w_retry_counts' = [w_retry_counts EXCEPT ![w] = increment_retries(w)]
    /\ UNCHANGED <<chunks, w_ids, consecutive_errors>>

\* _apply_retry_updates commits: every claimed id gets its retry_counts entry
\* and the status that follows from it.
apply_retry_updates(w) ==
    /\ w_pc[w] = "apply"
    /\ chunks' = [c \in ChunkIds |->
          IF c \in w_ids[w] THEN RetryRow(chunks[c], w_retry_counts[w][c])
          ELSE chunks[c]]
    /\ IterationEnd(w, consecutive_errors[w])

\* _apply_retry_updates fails: rolled back, the exception leaves the handler
\* and reaches the outer `except Exception`.
ApplyFail(w) ==
    /\ w_pc[w] = "apply"
    /\ OuterExcept(w)
    /\ UNCHANGED chunks

\* The fallback loop has handled every chunk: consecutive_errors = 0.
FallbackNext(w, c) ==
    IF w_ids[w] = {c}
    THEN IterationEnd(w, 0)
    ELSE /\ w_ids' = [w_ids EXCEPT ![w] = @ \ {c}]
         /\ UNCHANGED <<w_pc, w_retry_counts, consecutive_errors>>

\* Fallback, chunk c alone: the call succeeds and the vector is written.
FallbackOk(w, c) ==
    /\ w_pc[w] = "fallback"
    /\ c \in w_ids[w]
    /\ chunks' = [chunks EXCEPT ![c] = DoneRow(@)]
    /\ FallbackNext(w, c)

\* Fallback, chunk c alone: the call raises HTTPStatusError and the retry
\* update of the chunk is written.
FallbackHttpError(w, c) ==
    /\ w_pc[w] = "fallback"
    /\ c \in w_ids[w]
    /\ chunks' = [chunks EXCEPT ![c] = RetryRow(@, w_retry_counts[w][c] + 1)]
    /\ FallbackNext(w, c)

\* Fallback, chunk c alone: the call raises something else (timeout,
\* connection error, empty body), or one of the writes fails.  Nothing in the
\* fallback catches it: it reaches the outer `except Exception`.
FallbackOtherError(w, c) ==
    /\ w_pc[w] = "fallback"
    /\ c \in w_ids[w]
    /\ OuterExcept(w)
    /\ UNCHANGED chunks

\* The worker task is cancelled (shutdown cancels every task) or the process
\* dies: CancelledError is no Exception, no handler of the loop runs.  A claim
\* transaction in flight is rolled back; a committed claim is not undone.
Cancel(w) ==
    /\ w_pc[w] # "cancelled"
    /\ w_pc' = [w_pc EXCEPT ![w] = "cancelled"]
    /\ w_ids' = [w_ids EXCEPT ![w] = {}]
    /\ w_retry_counts' = [w_retry_counts EXCEPT ![w] = <<>>]
    /\ consecutive_errors' = [consecutive_errors EXCEPT ![w] = 0]
    /\ UNCHANGED chunks

\* The process is started again: a new embedding_worker task.
Restart(w) ==
    /\ w_pc[w] = "cancelled"
    /\ w_pc' = [w_pc EXCEPT ![w] = "poll"]
    /\ UNCHANGED <<chunks, w_ids, w_retry_counts, consecutive_errors>>

\* Operator "retry errors":
\* UPDATE chunks SET embedding_status='pending', retry_count=0
\* WHERE embedding_status='failed'
retry_errors ==
    /\ chunks' = [c \in ChunkIds |->
          IF chunks[c].status = "failed"
          THEN [chunks[c] EXCEPT !.status = "pending", !.retry_count = 0]
          ELSE chunks[c]]
    /\ UNCHANGED <<w_pc, w_ids, w_retry_counts, consecutive_errors>>

\* No intake task is running.
NoCall == [caller |-> "none"]

\* The watcher does not run and the drop zone is empty.
WatcherOff ==
    /\ pause_sentinel = FALSE
    /\ zone = {}
    /\ changes = {}
    /\ wt_pc = "stopped"
    /\ wt_batch = {}
    /\ dispatched = {}

\* The outbox drainer does not run and the graph store is empty.
DrainerOff ==
    /\ graph = [nodes |-> EmptyBag, edges |-> {}]
    /\ dr_pc = "stopped"
    /\ dr_rows = <<>>
    /\ falkordb_consecutive_errors = 0
    /\ applies = <<>>
    /\ written = <<>>
    /\ dr_faults = 0

\* No API request has been answered and the search cache is empty.
NoResponse == [op |-> "none"]
ApiOff ==
    /\ cache = <<>>
    /\ clock = 0
    /\ config = DefaultConfig
    /\ response = NoResponse
    /\ served = 0
    /\ deletion_log = <<>>

\* No task uses shared/db.py: the pool handle is None.
PoolTasks == {1, 2}
NoPool == [pool |-> 0, state |-> "none"]
PoolOff ==
    /\ pool = 0
    /\ pools = <<>>
    /\ pl_task = [t \in PoolTasks |-> [pc |-> "idle", obj |-> 0, got |-> NoPool]]

\* No pure function has been called.
NoArgs == [fn |-> "none"]
FnOff ==
    /\ args = NoArgs
    /\ result = <<>>

EmbedInit ==
    /\ chunks = [c \in ChunkIds |-> NewChunk(LegacyDocument.id)]
    /\ w_pc = [w \in Workers |-> "poll"]
    /\ w_ids = [w \in Workers |-> {}]
    /\ w_retry_counts = [w \in Workers |-> <<>>]
    /\ consecutive_errors = [w \in Workers |-> 0]
    /\ documents = {LegacyDocument}
    /\ persons = <<>>
    /\ outbox = <<>>
    /\ dead_letter = {}
    /\ write_failed_log = {}
    /\ next_id = 0
    /\ t_pc = [t \in 1..NTasks |-> "idle"]
    /\ t_call = [t \in 1..NTasks |-> NoCall]
    /\ WatcherOff
    /\ DrainerOff
    /\ ApiOff
    /\ FnOff
    /\ PoolOff

EmbedNext ==
    \/ \E w \in Workers : ClaimExecute(w) /\ UNCHANGED embedFrame
    \/ \E w \in Workers : ClaimCommit(w) /\ UNCHANGED embedFrame
    \/ \E w \in Workers : ClaimFail(w) /\ UNCHANGED embedFrame
    \/ \E w \in Workers : EmbedOk(w) /\ UNCHANGED embedFrame
    \/ \E w \in Workers : WriteFail(w) /\ UNCHANGED embedFrame
    \/ \E w \in Workers : EmbedOtherError(w) /\ UNCHANGED embedFrame
    \/ \E w \in Workers : \E ctx \in BOOLEAN :
          EmbedHttpError(w, ctx) /\ UNCHANGED embedFrame
    \/ \E w \in Workers : apply_retry_updates(w) /\ UNCHANGED embedFrame
    \/ \E w \in Workers : ApplyFail(w) /\ UNCHANGED embedFrame
    \/ \E w \in Workers : \E c \in ChunkIds :
          FallbackOk(w, c) /\ UNCHANGED embedFrame
    \/ \E w \in Workers : \E c \in ChunkIds :
          FallbackHttpError(w, c) /\ UNCHANGED embedFrame
    \/ \E w \in Workers : \E c \in ChunkIds :
          FallbackOtherError(w, c) /\ UNCHANGED embedFrame
    \/ \E w \in Workers : Cancel(w) /\ UNCHANGED embedFrame
    \/ \E w \in Workers : Restart(w) /\ UNCHANGED embedFrame
    \/ retry_errors /\ UNCHANGED embedFrame

EmbedSpec == EmbedInit /\ [][EmbedNext]_vars

\* The worker's own steps when the store works and the task is not cancelled:
\* what a scheduler that keeps running the task keeps executing.  The
\* embedding endpoint may fail in any way on the batch call.
WorkerLoop(w) ==
    \/ ClaimExecute(w)
    \/ ClaimCommit(w)
    \/ EmbedOk(w)
    \/ EmbedOtherError(w)
    \/ \E ctx \in BOOLEAN : EmbedHttpError(w, ctx)
    \/ apply_retry_updates(w)
    \/ \E c \in ChunkIds : FallbackOk(w, c)
    \/ \E c \in ChunkIds : FallbackHttpError(w, c)

EmbedFairNext == \E w \in Workers : WorkerLoop(w) /\ UNCHANGED embedFrame

\* The event loop keeps scheduling every worker task (asyncio runs each task
\* whose await has completed): weak fairness of each worker's loop.
EmbedFairSpec ==
    /\ EmbedInit /\ [][EmbedFairNext]_vars
    /\ \A w \in Workers : WF_vars(WorkerLoop(w) /\ UNCHANGED embedFrame)

\* ----------------------------------------------------- ingest coordinator

Files == 1..NFiles
Tasks == 1..NTasks

\* detect_type(path)
FileType(f) ==
    CASE f % 4 = 1 -> "mbox"
      [] f % 4 = 2 -> "unknown"
      [] f % 4 = 3 -> "markdown"
      [] OTHER -> "pdf"

\* The content fingerprint of a file.
FileSha(f) == f

\* len(chunk_text(text, chunk_size, chunk_overlap)) for the file's text.
FileChunks(f) == 1 + (f % 2)

\* The number of parsable messages parse_mbox yields for an mbox file.
FileMessages(f) == 2 + (f % 2)

\* The parameters ingest_document declares (it takes no **kwargs).
IngestDocumentParams ==
    {"pool", "source_path", "source_type", "sha256", "sender_email",
     "sender_name", "recipients", "metadata"}

\* The arguments _handle_file passes in each of its three calls.
HandleFileKwargs == IngestDocumentParams \cup {"chunks", "pii_flags"}

\* The call _handle_file makes for a file: an mbox message carries its
\* envelope, pdf and markdown are ingested with an empty sender.
HandleFileCall(f) ==
    [caller |-> "handle_file", kwargs |-> HandleFileKwargs,
     source_path |-> f, sha256 |-> FileSha(f),
     sender_email |-> IF FileType(f) = "mbox" THEN "a" ELSE "",
     sender_name |-> IF FileType(f) = "mbox" THEN "n1" ELSE "",
     recipients |-> IF FileType(f) = "mbox" THEN {"b"} ELSE {},
     msgs_left |-> IF FileType(f) = "mbox" THEN FileMessages(f) ELSE 1,
     doc_id |-> 0, error |-> "none"]

\* A call of ingest_document with exactly its declared parameters, for the
\* content of a file f of a supported type (source_type mbox, pdf, markdown).
DeclaredCalls ==
    {[caller |-> "direct", kwargs |-> IngestDocumentParams,
      source_path |-> f, sha256 |-> FileSha(f),
      sender_email |-> "a",
      sender_name |-> IF f % 2 = 1 THEN "n2" ELSE "",
      recipients |-> IF f % 2 = 1 THEN {"b"} ELSE {"a", "b"},
      doc_id |-> 0, error |-> "none"] :
        f \in {g \in Files : FileType(g) # "unknown"}}

\* Mutant: the duplicate check never finds the fingerprint.
sha256_exists_Never(sha) == FALSE

\* sha256_exists: SELECT 1 FROM documents WHERE sha256 = %s
sha256_exists(sha) == \E d \in documents : d.sha256 = sha

\* sender_name or sender_email
DisplayName(name, email) == IF name = "" THEN email ELSE name

\* The document row statement 1 inserts.
TxDocumentRow(call) ==
    [id |-> call.doc_id, source_path |-> call.source_path, sha256 |-> call.sha256]

\* The persons table after statements 2 and 3 of the transaction: the sender
\* is inserted or its display_name overwritten (ON CONFLICT DO UPDATE), each
\* recipient is inserted unless its email exists (ON CONFLICT DO NOTHING;
\* r.get("name") or r["email"], the recipients here carry no name).
TxPersons(call) ==
    [e \in DOMAIN persons \cup {call.sender_email} \cup call.recipients |->
        IF e = call.sender_email
        THEN DisplayName(call.sender_name, call.sender_email)
        ELSE IF e \in DOMAIN persons THEN persons[e] ELSE e]

\* Mutant: the outbox INSERT is missing from the transaction.
TxOutboxRows_None(call) == <<>>

\* The outbox rows statement 4 inserts: one document_added event.
TxOutboxRows(call) ==
    <<[event_type |-> "document_added", doc_id |-> call.doc_id, entity_id |-> 0,
       processed_at |-> NULL, attempts |-> 0, failed |-> FALSE,
       error |-> NULL]>>

\* The chunk rows the transaction inserts: ingest_document has no statement
\* on the chunks table.
TxChunkRows(call) == <<>>

\* An exception leaves ingest_document: _handle_file catches it in
\* `except Exception`, any other caller sees it raised.
Raise(t, err) ==
    /\ t_pc' = [t_pc EXCEPT ![t] =
           IF t_call[t].caller = "handle_file" THEN "except" ELSE "raised"]
    /\ t_call' = [t_call EXCEPT ![t].error = err]

\* A file is handed to _handle_file(path, sha): ingest_file_start is logged
\* and the pool is awaited.
HandleFile(t, f) ==
    /\ t_pc[t] = "idle"
    /\ t_call' = [t_call EXCEPT ![t] = HandleFileCall(f)]
    /\ t_pc' = [t_pc EXCEPT ![t] = "start"]
    /\ UNCHANGED <<documents, persons, outbox, dead_letter, write_failed_log,
                   next_id, chunks>>

\* if await sha256_exists(pool, sha): log ingest_skip_duplicate and return.
\* Otherwise an unsupported type is dead-lettered, any other file is parsed and
\* chunked and ingest_document is called (for an mbox: for its first message).
SkipDuplicate(t) ==
    /\ t_pc[t] = "start"
    /\ IF sha256_exists(t_call[t].sha256)
       THEN /\ t_pc' = [t_pc EXCEPT ![t] = "idle"]
            /\ t_call' = [t_call EXCEPT ![t] = NoCall]
       ELSE /\ t_pc' = [t_pc EXCEPT ![t] =
                   IF FileType(t_call[t].source_path) = "unknown"
                   THEN "unsupported" ELSE "call"]
            /\ UNCHANGED t_call
    /\ UNCHANGED <<documents, persons, outbox, dead_letter, write_failed_log,
                   next_id, chunks>>

\* else-branch of _handle_file: write_dead_letter("unsupported file type");
\* a failure of that write is caught by `except Exception`.
Unsupported(t, ok) ==
    /\ t_pc[t] = "unsupported"
    /\ IF ok
       THEN /\ dead_letter' = dead_letter \cup
                   {[file_path |-> t_call[t].source_path, error |-> "unsupported"]}
            /\ t_pc' = [t_pc EXCEPT ![t] = "idle"]
            /\ t_call' = [t_call EXCEPT ![t] = NoCall]
       ELSE /\ Raise(t, "dead_letter_error")
            /\ UNCHANGED dead_letter
    /\ UNCHANGED <<documents, persons, outbox, write_failed_log, next_id, chunks>>

\* Some caller calls ingest_document with its declared parameters.
DirectCall(t, call) ==
    /\ t_pc[t] = "idle"
    /\ call \in DeclaredCalls
    /\ t_call' = [t_call EXCEPT ![t] = call]
    /\ t_pc' = [t_pc EXCEPT ![t] = "call"]
    /\ UNCHANGED <<documents, persons, outbox, dead_letter, write_failed_log,
                   next_id, chunks>>

\* The call binds its arguments: an undeclared keyword raises TypeError
\* before the body runs.  Otherwise doc_id = uuid4() and the transaction
\* begins.
CallIngestDocument(t) ==
    /\ t_pc[t] = "call"
    /\ IF t_call[t].kwargs \subseteq IngestDocumentParams
       THEN /\ next_id < MaxIngests
            /\ next_id' = next_id + 1
            /\ t_call' = [t_call EXCEPT ![t].doc_id = next_id + 1]
            /\ t_pc' = [t_pc EXCEPT ![t] = "tx"]
       ELSE /\ Raise(t, "TypeError")
            /\ UNCHANGED next_id
    /\ UNCHANGED <<documents, persons, outbox, dead_letter, write_failed_log, chunks>>

\* A document with this fingerprint is committed, or inserted by a
\* transaction still in flight (whose end the INSERT waits for).
ShaCommitted(sha) == \E d \in documents : d.sha256 = sha
ShaInFlight(t, sha) ==
    \E u \in Tasks \ {t} : t_pc[u] = "tx_written" /\ t_call[u].sha256 = sha

\* Mutant: the persons statements run on a connection of their own
\* (autocommit), outside the transaction.
TxStatements_PersonsOutsideTx(t) ==
    /\ t_pc[t] = "tx"
    /\ ~ShaInFlight(t, t_call[t].sha256)
    /\ IF ShaCommitted(t_call[t].sha256)
       THEN Raise(t, "UniqueViolation") /\ UNCHANGED persons
       ELSE /\ t_pc' = [t_pc EXCEPT ![t] = "tx_written"]
            /\ persons' = TxPersons(t_call[t])
            /\ UNCHANGED t_call
    /\ UNCHANGED <<documents, outbox, dead_letter, write_failed_log,
                   next_id, chunks>>

\* Statements 1-4 run inside the transaction; nothing is visible yet.  The
\* document INSERT fails on a stored fingerprint (unique sha256).
TxStatements(t) ==
    /\ t_pc[t] = "tx"
    /\ ~ShaInFlight(t, t_call[t].sha256)
    /\ IF ShaCommitted(t_call[t].sha256)
       THEN Raise(t, "UniqueViolation")
       ELSE /\ t_pc' = [t_pc EXCEPT ![t] = "tx_written"]
            /\ UNCHANGED t_call
    /\ UNCHANGED <<documents, persons, outbox, dead_letter, write_failed_log,
                   next_id, chunks>>

\* The transaction commits: document, persons, chunk rows and the outbox
\* event become visible together; ingest_document returns doc_id.  The mbox
\* loop of _handle_file goes on with the next message of the same file (same
\* path, same sha); any other caller is done.
TxCommit(t) ==
    /\ t_pc[t] = "tx_written"
    /\ documents' = documents \cup {TxDocumentRow(t_call[t])}
    /\ persons' = TxPersons(t_call[t])
    /\ outbox' = outbox \o TxOutboxRows(t_call[t])
    /\ chunks' = chunks \o TxChunkRows(t_call[t])
    /\ IF t_call[t].caller = "handle_file" /\ t_call[t].msgs_left > 1
       THEN /\ t_pc' = [t_pc EXCEPT ![t] = "call"]
            /\ t_call' = [t_call EXCEPT ![t].msgs_left = @ - 1, ![t].doc_id = 0]
       ELSE /\ t_pc' = [t_pc EXCEPT ![t] = "idle"]
            /\ t_call' = [t_call EXCEPT ![t] = NoCall]
    /\ UNCHANGED <<dead_letter, write_failed_log, next_id>>

\* A statement or the commit fails in the store (connection lost, statement
\* timeout): the transaction is rolled back and the error propagates.
TxFail(t) ==
    /\ t_pc[t] \in {"tx", "tx_written"}
    /\ Raise(t, "db_error")
    /\ UNCHANGED <<documents, persons, outbox, dead_letter, write_failed_log,
                   next_id, chunks>>

\* except Exception of _handle_file: write_dead_letter(pool, path, str(exc));
\* when that write fails too, dead_letter_write_failed is logged.
ExceptDeadLetter(t, ok) ==
    /\ t_pc[t] = "except"
    /\ IF ok
       THEN /\ dead_letter' = dead_letter \cup
                   {[file_path |-> t_call[t].source_path, error |-> t_call[t].error]}
            /\ UNCHANGED write_failed_log
       ELSE /\ write_failed_log' = write_failed_log \cup {t_call[t].source_path}
            /\ UNCHANGED dead_letter
    /\ t_pc' = [t_pc EXCEPT ![t] = "idle"]
    /\ t_call' = [t_call EXCEPT ![t] = NoCall]
    /\ UNCHANGED <<documents, persons, outbox, next_id, chunks>>

\* The direct caller is done with the raised error.
CallerReturns(t) ==
    /\ t_pc[t] = "raised"
    /\ t_pc' = [t_pc EXCEPT ![t] = "idle"]
    /\ t_call' = [t_call EXCEPT ![t] = NoCall]
    /\ UNCHANGED <<documents, persons, outbox, dead_letter, write_failed_log,
                   next_id, chunks>>

workerVars == <<w_pc, w_ids, w_retry_counts, consecutive_errors>>
\* What the ingest specification leaves alone.
ingestFrame == <<workerVars, watchVars, drainVars, apiVars, fnVars, poolVars>>

\* An empty store; no embedding worker takes part.
IngestInit ==
    /\ chunks = <<>>
    /\ w_pc = [w \in Workers |-> "cancelled"]
    /\ w_ids = [w \in Workers |-> {}]
    /\ w_retry_counts = [w \in Workers |-> <<>>]
    /\ consecutive_errors = [w \in Workers |-> 0]
    /\ documents = {}
    /\ persons = <<>>
    /\ outbox = <<>>
    /\ dead_letter = {}
    /\ write_failed_log = {}
    /\ next_id = 0
    /\ t_pc = [t \in Tasks |-> "idle"]
    /\ t_call = [t \in Tasks |-> NoCall]
    /\ WatcherOff
    /\ DrainerOff
    /\ ApiOff
    /\ FnOff
    /\ PoolOff

IngestNext ==
    \/ \E t \in Tasks : \E f \in Files : HandleFile(t, f) /\ UNCHANGED ingestFrame
    \/ \E t \in Tasks : SkipDuplicate(t) /\ UNCHANGED ingestFrame
    \/ \E t \in Tasks : \E ok \in BOOLEAN : Unsupported(t, ok) /\ UNCHANGED ingestFrame
    \/ \E t \in Tasks : \E call \in DeclaredCalls :
          DirectCall(t, call) /\ UNCHANGED ingestFrame
    \/ \E t \in Tasks : CallIngestDocument(t) /\ UNCHANGED ingestFrame
    \/ \E t \in Tasks : TxStatements(t) /\ UNCHANGED ingestFrame
    \/ \E t \in Tasks : TxCommit(t) /\ UNCHANGED ingestFrame
    \/ \E t \in Tasks : TxFail(t) /\ UNCHANGED ingestFrame
    \/ \E t \in Tasks : \E ok \in BOOLEAN :
          ExceptDeadLetter(t, ok) /\ UNCHANGED ingestFrame
    \/ \E t \in Tasks : CallerReturns(t) /\ UNCHANGED ingestFrame

IngestSpec == IngestInit /\ [][IngestNext]_vars

\* ------------------------------------------------------ drop-zone watcher

\* What the watcher specification leaves alone.
watchFrame == <<chunks, workerVars, ingestVars, drainVars, apiVars, fnVars, poolVars>>

\* The operator copies a file with a watched extension into the drop zone,
\* or writes to one that lies there: the watch stream records a change for
\* its path.
CopyFile(f) ==
    /\ f \notin changes
    /\ zone' = zone \cup {f}
    /\ changes' = changes \cup {f}
    /\ UNCHANGED <<pause_sentinel, wt_pc, wt_batch, dispatched>>

\* action_pause_watcher: the sentinel is created when absent and removed
\* when present.  ExtFilter passes no change for ".pause" (no watched
\* extension), so the watch stream records nothing.
action_pause_watcher ==
    /\ pause_sentinel' = ~pause_sentinel
    /\ UNCHANGED <<zone, changes, wt_pc, wt_batch, dispatched>>

\* async for changes in awatch(...): the stream yields the changes recorded
\* since the last yield, as one batch.
AwatchYield ==
    /\ wt_pc = "await"
    /\ changes # {}
    /\ wt_batch' = changes
    /\ changes' = {}
    /\ wt_pc' = "batch"
    /\ UNCHANGED <<pause_sentinel, zone, dispatched>>

\* if Path(pause_sentinel).exists(): log watcher_paused and continue (the
\* batch is dropped); otherwise the batch is iterated.
PauseCheck ==
    /\ wt_pc = "batch"
    /\ IF pause_sentinel
       THEN wt_pc' = "await" /\ wt_batch' = {}
       ELSE wt_pc' = "loop" /\ UNCHANGED wt_batch
    /\ UNCHANGED <<pause_sentinel, zone, changes, dispatched>>

\* The iteration of the batch moves on; after its last change the stream is
\* awaited again.
BatchNext(f) ==
    /\ wt_batch' = wt_batch \ {f}
    /\ wt_pc' = IF wt_batch = {f} THEN "await" ELSE "loop"

\* One change of the batch: sha256_file(path), then await handle_file(path,
\* sha).  An exception of the handler is logged and the loop goes on.
Dispatch(f) ==
    /\ wt_pc = "loop"
    /\ f \in wt_batch
    /\ dispatched' = dispatched \cup {f}
    /\ BatchNext(f)
    /\ UNCHANGED <<pause_sentinel, zone, changes>>

\* One change of the batch: sha256_file raises (the file is locked or gone),
\* file_handle_error is logged, handle_file is not called.
FileHandleError(f) ==
    /\ wt_pc = "loop"
    /\ f \in wt_batch
    /\ BatchNext(f)
    /\ UNCHANGED <<pause_sentinel, zone, changes, dispatched>>

WatchInit ==
    /\ chunks = <<>>
    /\ w_pc = [w \in Workers |-> "cancelled"]
    /\ w_ids = [w \in Workers |-> {}]
    /\ w_retry_counts = [w \in Workers |-> <<>>]
    /\ consecutive_errors = [w \in Workers |-> 0]
    /\ documents = {}
    /\ persons = <<>>
    /\ outbox = <<>>
    /\ dead_letter = {}
    /\ write_failed_log = {}
    /\ next_id = 0
    /\ t_pc = [t \in Tasks |-> "idle"]
    /\ t_call = [t \in Tasks |-> NoCall]
    /\ pause_sentinel = FALSE
    /\ zone = {}
    /\ changes = {}
    /\ wt_pc = "await"
    /\ wt_batch = {}
    /\ dispatched = {}
    /\ DrainerOff
    /\ ApiOff
    /\ FnOff
    /\ PoolOff

WatchNext ==
    \/ \E f \in Files : CopyFile(f) /\ UNCHANGED watchFrame
    \/ action_pause_watcher /\ UNCHANGED watchFrame
    \/ AwatchYield /\ UNCHANGED watchFrame
    \/ PauseCheck /\ UNCHANGED watchFrame
    \/ \E f \in Files : Dispatch(f) /\ UNCHANGED watchFrame
    \/ \E f \in Files : FileHandleError(f) /\ UNCHANGED watchFrame

WatchSpec == WatchInit /\ [][WatchNext]_vars

\* The steps of watch_drop_zone when every file can be read.
WatcherLoop ==
    \/ AwatchYield
    \/ PauseCheck
    \/ \E f \in Files : Dispatch(f)

WatchFairNext ==
    \/ \E f \in Files : CopyFile(f) /\ UNCHANGED watchFrame
    \/ action_pause_watcher /\ UNCHANGED watchFrame
    \/ WatcherLoop /\ UNCHANGED watchFrame

\* The event loop keeps scheduling the watcher task: weak fairness of its
\* loop.  The operator (copies, pause toggle) is under no obligation.
WatchFairSpec ==
    /\ WatchInit /\ [][WatchFairNext]_vars
    /\ WF_vars(WatcherLoop /\ UNCHANGED watchFrame)

\* --------------------------------------------------------- outbox drainer

\* What the drainer specification leaves alone.
drainFrame == <<chunks, workerVars, documents, persons, dead_letter,
                write_failed_log, next_id, t_pc, t_call, watchVars,
                apiVars, fnVars, poolVars>>

\* The event types _apply_outbox_event has a branch for.
AppliedTypes == {"document_added", "entity_deleted", "person_merged"}

\* The event types producers enqueue besides document_added, with the id
\* their payload carries: document 1, or person 11 (the sender of document 1).
EntityEvents ==
    {[event_type |-> "entity_deleted", doc_id |-> 0, entity_id |-> 1],
     [event_type |-> "person_merged", doc_id |-> 0, entity_id |-> 11],
     [event_type |-> "entity_updated", doc_id |-> 0, entity_id |-> 1],
     [event_type |-> "entity_hard_deleted", doc_id |-> 0, entity_id |-> 1],
     [event_type |-> "concept_added", doc_id |-> 1, entity_id |-> 0]}

\* An outbox row as inserted: unprocessed, no attempt, not failed.
NewOutboxRow(ev) ==
    [event_type |-> ev.event_type, doc_id |-> ev.doc_id, entity_id |-> ev.entity_id,
     processed_at |-> NULL, attempts |-> 0, failed |-> FALSE,
     error |-> NULL]

\* The payload of the document_added event of a document: its sender (email,
\* person id) and its recipients; ingested_at / merged_at are the time 1.
PayloadSender(doc_id) == [email |-> "a", id |-> 10 + doc_id]
PayloadRecipients(doc_id) == {"b"}
PayloadTs == 1

\* Mutant: CREATE instead of MERGE, a node is created on every application.
MergeNode_Create(nodes, matches, node) == nodes (+) SetToBag({node})

\* MERGE (n:Label {key}) ON CREATE SET ...: a node is created, with the
\* ON CREATE properties, only when no node matches the pattern.
MergeNode(nodes, matches, node) ==
    IF matches # {} THEN nodes ELSE nodes (+) SetToBag({node})

\* MERGE (a)-[r:TYPE {thread_id}]->(d) ON CREATE SET r.valid_at: the edge is
\* created only when there is none of this type between the two nodes.
MergeEdge(edges, type, from, to) ==
    IF \E e \in edges : e.type = type /\ e.from = from /\ e.to = to
    THEN edges
    ELSE edges \cup {[type |-> type, from |-> from, to |-> to, invalid_at |-> 0]}

PersonNodes(nodes, email) ==
    {n \in BagToSet(nodes) : n.label = "Person" /\ n.email = email}
DocumentNodes(nodes, doc_id) ==
    {n \in BagToSet(nodes) : n.label = "Document" /\ n.id = doc_id}

\* document_added: MERGE sender, MERGE document, MERGE SENT edge, then per
\* recipient MERGE person and RECEIVED edge (one batched query).
ApplyDocumentAdded(g, doc_id) ==
    LET sender == PayloadSender(doc_id)
        n1 == MergeNode(g.nodes, PersonNodes(g.nodes, sender.email),
                  [label |-> "Person", email |-> sender.email, id |-> sender.id])
        n2 == MergeNode(n1, DocumentNodes(n1, doc_id),
                  [label |-> "Document", email |-> "", id |-> doc_id])
        e1 == MergeEdge(g.edges, "SENT", sender.email, doc_id)
        rs == PayloadRecipients(doc_id)
        n3 == n2 (+) SetToBag({[label |-> "Person", email |-> r, id |-> 0] :
                       r \in {x \in rs : MergeNode(n2, PersonNodes(n2, x),
                           [label |-> "Person", email |-> x, id |-> 0]) # n2}})
        e2 == e1 \cup {[type |-> "RECEIVED", from |-> r, to |-> doc_id, invalid_at |-> 0] :
                       r \in {x \in rs : MergeEdge(e1, "RECEIVED", x, doc_id) # e1}}
    IN [nodes |-> n3, edges |-> e2]

\* entity_deleted: MATCH (n {id: $id}) DETACH DELETE n
ApplyEntityDeleted(g, id) ==
    LET gone == {n \in BagToSet(g.nodes) : n.id = id}
        kept == BagToSet(g.nodes) \ gone
    IN [nodes |-> [n \in kept |-> g.nodes[n]],
        edges |-> {e \in g.edges :
                     /\ ~\E n \in gone : n.label = "Document" /\ e.to = n.id
                     /\ ~\E n \in gone : n.label = "Person" /\ e.from = n.email}]

\* person_merged: MATCH (a:Person {id: $from_id})-[r]->() SET r.invalid_at = $ts
ApplyPersonMerged(g, from_id) ==
    [nodes |-> g.nodes,
     edges |-> {IF \E n \in BagToSet(g.nodes) :
                      n.label = "Person" /\ n.id = from_id /\ n.email = e.from
                THEN [e EXCEPT !.invalid_at = PayloadTs] ELSE e : e \in g.edges}]

\* _apply_outbox_event: the graph after the event; an event type without a
\* branch leaves the graph alone.
ApplyEvent(g, row) ==
    CASE row.event_type = "document_added" -> ApplyDocumentAdded(g, row.doc_id)
      [] row.event_type = "entity_deleted" -> ApplyEntityDeleted(g, row.entity_id)
      [] row.event_type = "person_merged" -> ApplyPersonMerged(g, row.entity_id)
      [] OTHER -> g

\* _apply_outbox_event issues a graph query for the event.
IssuesQuery(row) == row.event_type \in AppliedTypes

\* SELECT id, event_type, payload, attempts FROM outbox WHERE processed_at IS
\* NULL AND NOT failed ORDER BY created_at LIMIT OUTBOX_BATCH_SIZE: the ids
\* with the attempts read, in creation order.
\* Mutant: the SELECT has no `AND NOT failed`.
Unprocessed_FailedToo == {i \in DOMAIN outbox : outbox[i].processed_at = NULL}
Unprocessed == {i \in DOMAIN outbox : outbox[i].processed_at = NULL /\ ~outbox[i].failed}
RECURSIVE SelectRows(_, _)
SelectRows(i, n) ==
    IF i > Len(outbox) \/ n = 0 THEN <<>>
    ELSE IF i \in Unprocessed
         THEN <<[id |-> i, attempts |-> outbox[i].attempts]>> \o SelectRows(i + 1, n - 1)
         ELSE SelectRows(i + 1, n)

\* The for loop over the batch moves on; after the last row the worker sleeps
\* the poll interval and selects again.
RowDone ==
    /\ dr_rows' = Tail(dr_rows)
    /\ dr_pc' = IF Len(dr_rows) = 1 THEN "select" ELSE "row"

\* The history of graph applications of a row, counted up to 2.
CountWrite(i) == [written EXCEPT ![i] = IF @ < 2 THEN @ + 1 ELSE @]

\* A fault happens, while the behaviour has faults left.
Fault ==
    /\ dr_faults < MaxFaults
    /\ dr_faults' = dr_faults + 1

\* One iteration starts: the batch is selected.
DrainSelect ==
    /\ dr_pc = "select"
    /\ dr_rows' = SelectRows(1, OUTBOX_BATCH_SIZE)
    /\ dr_pc' = IF dr_rows' = <<>> THEN "select" ELSE "row"
    /\ UNCHANGED <<outbox, graph, falkordb_consecutive_errors, applies, written>>
    /\ UNCHANGED dr_faults

\* if attempts >= OUTBOX_MAX_ATTEMPTS: failed = true, continue.
DrainDeadLetter ==
    /\ dr_pc = "row"
    /\ Head(dr_rows).attempts >= OUTBOX_MAX_ATTEMPTS
    /\ outbox' = [outbox EXCEPT ![Head(dr_rows).id].failed = TRUE,
                                ![Head(dr_rows).id].error = "max attempts exceeded"]
    /\ RowDone
    /\ UNCHANGED <<graph, falkordb_consecutive_errors, applies, written>>
    /\ UNCHANGED dr_faults

\* UPDATE outbox SET processed_at = now(), attempts = attempts + 1
\* WHERE id = %s AND processed_at IS NULL   (committed before the apply)
DrainMark ==
    /\ dr_pc = "row"
    /\ Head(dr_rows).attempts < OUTBOX_MAX_ATTEMPTS
    /\ LET i == Head(dr_rows).id IN
       outbox' = IF outbox[i].processed_at = NULL
                 THEN [outbox EXCEPT ![i].processed_at = "set", ![i].attempts = @ + 1]
                 ELSE outbox
    /\ dr_pc' = "marked"
    /\ UNCHANGED <<graph, dr_rows, falkordb_consecutive_errors, applies, written>>
    /\ UNCHANGED dr_faults

\* The mark UPDATE fails in the store: `except Exception` of the row.
DrainMarkFail ==
    /\ dr_pc = "row"
    /\ Head(dr_rows).attempts < OUTBOX_MAX_ATTEMPTS
    /\ falkordb_consecutive_errors' = falkordb_consecutive_errors + 1
    /\ dr_pc' = "rollback"
    /\ UNCHANGED <<outbox, graph, dr_rows, applies, written>>
    /\ Fault

\* _apply_outbox_event returns: the event's query, when it has one, has been
\* executed; falkordb_consecutive_errors = 0.
DrainApplyOk ==
    /\ dr_pc = "marked"
    /\ LET i == Head(dr_rows).id IN
       /\ graph' = ApplyEvent(graph, outbox[i])
       /\ applies' = [applies EXCEPT ![i] = @ + 1]
       /\ written' = IF IssuesQuery(outbox[i]) THEN CountWrite(i) ELSE written
    /\ falkordb_consecutive_errors' = 0
    /\ RowDone
    /\ UNCHANGED outbox
    /\ UNCHANGED dr_faults

\* graph.query raises (graph store down, connection lost): the query was not
\* executed, or it was and only the reply was lost.
DrainApplyRaise(took_effect) ==
    /\ dr_pc = "marked"
    /\ LET i == Head(dr_rows).id IN
       /\ IssuesQuery(outbox[i])
       /\ applies' = [applies EXCEPT ![i] = @ + 1]
       /\ IF took_effect
          THEN graph' = ApplyEvent(graph, outbox[i]) /\ written' = CountWrite(i)
          ELSE UNCHANGED <<graph, written>>
    /\ falkordb_consecutive_errors' = falkordb_consecutive_errors + 1
    /\ dr_pc' = "rollback"
    /\ UNCHANGED <<outbox, dr_rows>>
    /\ Fault

\* except Exception of the row: UPDATE outbox SET processed_at = NULL,
\* error = %s, attempts = attempts + 1; at the threshold the worker sleeps the
\* breaker window and resets falkordb_consecutive_errors.
DrainRollback ==
    /\ dr_pc = "rollback"
    /\ LET i == Head(dr_rows).id IN
       outbox' = [outbox EXCEPT ![i].processed_at = NULL, ![i].error = "exc",
                                ![i].attempts = @ + 1]
    /\ falkordb_consecutive_errors' =
          IF falkordb_consecutive_errors >= FALKORDB_ERROR_THRESHOLD
          THEN 0 ELSE falkordb_consecutive_errors
    /\ RowDone
    /\ UNCHANGED <<graph, applies, written>>
    /\ UNCHANGED dr_faults

\* A store statement outside the row's try block fails (the dead-letter
\* UPDATE, or the rollback UPDATE inside the handler): the outer
\* `except Exception` logs outbox_worker_error, the rest of the batch is
\* skipped and the worker sleeps the poll interval.
DrainStoreFail ==
    /\ \/ dr_pc = "rollback"
       \/ dr_pc = "row" /\ Head(dr_rows).attempts >= OUTBOX_MAX_ATTEMPTS
    /\ dr_pc' = "select"
    /\ dr_rows' = <<>>
    /\ UNCHANGED <<outbox, graph, falkordb_consecutive_errors, applies, written>>
    /\ Fault

\* The drainer task is cancelled (shutdown) or the process dies.
DrainCancel ==
    /\ dr_pc # "stopped"
    /\ dr_pc' = "stopped"
    /\ dr_rows' = <<>>
    /\ falkordb_consecutive_errors' = 0
    /\ UNCHANGED <<outbox, graph, applies, written>>
    /\ Fault

\* The process is started again: outbox_worker connects to the graph store
\* and enters its loop with falkordb_consecutive_errors = 0.
DrainRestart ==
    /\ dr_pc = "stopped"
    /\ dr_pc' = "select"
    /\ UNCHANGED <<outbox, graph, dr_rows, falkordb_consecutive_errors, applies,
                   written>>
    /\ UNCHANGED dr_faults

\* The outbox holds the document_added event of document 1, followed by
\* events producers enqueued for it; nothing has been drained.
DrainInit ==
    /\ chunks = <<>>
    /\ w_pc = [w \in Workers |-> "cancelled"]
    /\ w_ids = [w \in Workers |-> {}]
    /\ w_retry_counts = [w \in Workers |-> <<>>]
    /\ consecutive_errors = [w \in Workers |-> 0]
    /\ documents = {[id |-> 1, source_path |-> 1, sha256 |-> 1]}
    /\ persons = <<>>
    /\ \E evs \in [2..NEvents -> EntityEvents] :
          outbox = [i \in 1..NEvents |->
                       IF i = 1
                       THEN NewOutboxRow([event_type |-> "document_added",
                                          doc_id |-> 1, entity_id |-> 0])
                       ELSE NewOutboxRow(evs[i])]
    /\ dead_letter = {}
    /\ write_failed_log = {}
    /\ next_id = 1
    /\ t_pc = [t \in Tasks |-> "idle"]
    /\ t_call = [t \in Tasks |-> NoCall]
    /\ WatcherOff
    /\ graph = [nodes |-> EmptyBag, edges |-> {}]
    /\ dr_pc = "select"
    /\ dr_rows = <<>>
    /\ falkordb_consecutive_errors = 0
    /\ applies = [i \in 1..NEvents |-> 0]
    /\ written = [i \in 1..NEvents |-> 0]
    /\ dr_faults = 0
    /\ ApiOff
    /\ FnOff
    /\ PoolOff

DrainNext ==
    \/ DrainSelect /\ UNCHANGED drainFrame
    \/ DrainDeadLetter /\ UNCHANGED drainFrame
    \/ DrainMark /\ UNCHANGED drainFrame
    \/ DrainMarkFail /\ UNCHANGED drainFrame
    \/ DrainApplyOk /\ UNCHANGED drainFrame
    \/ \E took_effect \in BOOLEAN : DrainApplyRaise(took_effect) /\ UNCHANGED drainFrame
    \/ DrainRollback /\ UNCHANGED drainFrame
    \/ DrainStoreFail /\ UNCHANGED drainFrame
    \/ DrainCancel /\ UNCHANGED drainFrame
    \/ DrainRestart /\ UNCHANGED drainFrame

DrainSpec == DrainInit /\ [][DrainNext]_vars

\* ------------------------------------------------------------ rank fusion

Range(s) == {s[i] : i \in DOMAIN s}
Min2(a, b) == IF a < b THEN a ELSE b
Max2(a, b) == IF a > b THEN a ELSE b
Prefix(s, n) == SubSeq(s, 1, Min2(n, Len(s)))

\* Scores are kept exact: 1/(k + rank + 1) is held as the integer
\* RrfScale(k, n) / (k + rank + 1), RrfScale(k, n) being the product of the
\* denominators of the first n ranks.
RECURSIVE RrfScale(_, _)
RrfScale(k, n) == IF n = 0 THEN 1 ELSE (k + n) * RrfScale(k, n - 1)

\* for rank, doc_id in enumerate(ids): scores[doc_id] += 1.0 / (k + rank + 1)
RECURSIVE RrfContribution(_, _, _, _, _)
RrfContribution(ids, d, k, n, r) ==
    IF r > Len(ids) THEN 0
    ELSE (IF ids[r] = d THEN RrfScale(k, n) \div (k + r) ELSE 0)
         + RrfContribution(ids, d, k, n, r + 1)

rrf_scores(bm25_ids, ann_ids, k) ==
    LET n == Max2(Len(bm25_ids), Len(ann_ids)) IN
    [d \in Range(bm25_ids) \cup Range(ann_ids) |->
        RrfContribution(bm25_ids, d, k, n, 1) + RrfContribution(ann_ids, d, k, n, 1)]

\* The keys of the scores dict in insertion order: ids in the order of their
\* first occurrence in bm25_ids followed by ann_ids.
RECURSIVE DictKeys(_, _)
DictKeys(ids, seen) ==
    IF ids = <<>> THEN <<>>
    ELSE IF Head(ids) \in seen THEN DictKeys(Tail(ids), seen)
    ELSE <<Head(ids)>> \o DictKeys(Tail(ids), seen \cup {Head(ids)})

\* sorted(keys, key=score, reverse=True): descending by score, stable (keys
\* of equal score keep their order in `keys`).  InsertByScore puts x behind
\* every key of `sorted` whose score is not lower.
RECURSIVE InsertByScore(_, _, _)
InsertByScore(sorted, x, score) ==
    IF sorted = <<>> THEN <<x>>
    ELSE IF score[Head(sorted)] >= score[x]
         THEN <<Head(sorted)>> \o InsertByScore(Tail(sorted), x, score)
         ELSE <<x>> \o sorted

RECURSIVE SortInto(_, _, _)
SortInto(sorted, keys, score) ==
    IF keys = <<>> THEN sorted
    ELSE SortInto(InsertByScore(sorted, Head(keys), score), Tail(keys), score)

SortedByScore(keys, score) == SortInto(<<>>, keys, score)

rrf_merge(bm25_ids, ann_ids, k) ==
    SortedByScore(DictKeys(bm25_ids \o ann_ids, {}), rrf_scores(bm25_ids, ann_ids, k))

\* _normalise(scores)[d] as the fraction NormNum / NormDen: (v - lo) / rng,
\* 1.0 for every id when rng == 0, absent ids count 0.0.
ScoreLo(scores) == CHOOSE v \in Range(scores) : \A u \in Range(scores) : v <= u
ScoreHi(scores) == CHOOSE v \in Range(scores) : \A u \in Range(scores) : v >= u
NormDen(scores) ==
    IF DOMAIN scores = {} \/ ScoreHi(scores) = ScoreLo(scores) THEN 1
    ELSE ScoreHi(scores) - ScoreLo(scores)
NormNum(scores, d) ==
    IF d \notin DOMAIN scores THEN 0
    ELSE IF ScoreHi(scores) = ScoreLo(scores) THEN 1
    ELSE scores[d] - ScoreLo(scores)

\* weighted_merge: ids by bm25_weight * norm_bm25 + vector_weight * norm_ann,
\* descending (weights in hundredths, the sum scaled by both denominators).
\* The ids are taken in ascending order where Python iterates the set
\* all_ids; the order of ids of equal combined score is that of the set.
RECURSIVE Ascending(_)
Ascending(S) == IF S = {} THEN <<>>
                ELSE LET c == CHOOSE x \in S : \A y \in S : x <= y
                     IN <<c>> \o Ascending(S \ {c})

weighted_merge(bm25_scores, ann_scores, bm25_weight, vector_weight) ==
    LET all_ids == DOMAIN bm25_scores \cup DOMAIN ann_scores
        combined == [d \in all_ids |->
            bm25_weight * NormNum(bm25_scores, d) * NormDen(ann_scores)
            + vector_weight * NormNum(ann_scores, d) * NormDen(bm25_scores)]
    IN SortedByScore(Ascending(all_ids), combined)

\* -------------------------------------------------------- search endpoint

\* SQL NULL of a timestamp column.
NoTime == 0 - 1

\* The q of a request: query 1 has lexical matches, query 2 has none.
Queries == {1, 2}
\* The limit of a request (1 <= limit <= 100).
Limits == {1, 2}
\* The (q, limit) pairs clients send.
SearchKeys == {<<1, 2>>, <<2, 1>>}
SearchDocs == {1, 2}

\* The chunks table of the search specification: NSearchChunks embedded rows
\* (the first of document 1, the others of document 2), one more row flagged
\* pii_detected and one more still pending.
SearchChunkRow(c) ==
    [document_id |-> IF c = 1 THEN 1 ELSE 2,
     status |-> IF c = NSearchChunks + 2 THEN "pending" ELSE "done",
     retry_count |-> 0,
     embedding |-> IF c = NSearchChunks + 2 THEN NULL ELSE Vec,
     pii_detected |-> (c = NSearchChunks + 1)]

\* tsv @@ plainto_tsquery(q): query 1 matches the text of every chunk, the
\* other queries match none.
LexicalMatch(q, c) == q = 1
\* ts_rank(tsv, plainto_tsquery(q))
ts_rank(q, c) == 100 - c
\* 1 - (embedding <=> query embedding)
cosine_similarity(q, c) == IF q = 1 THEN c ELSE 100 - c
\* model.predict([(query, snippet)])
predict(q, c) == (3 * c) % 7

\* _bm25_search: ... WHERE tsv @@ q AND embedding_status = 'done'
\*               AND pii_detected = false ORDER BY score DESC LIMIT %s
bm25_search(table, q, limit) ==
    LET rows == {c \in DOMAIN table : /\ LexicalMatch(q, c)
                                       /\ table[c].status = "done"
                                       /\ ~table[c].pii_detected}
    IN Prefix(SortedByScore(Ascending(rows), [c \in rows |-> ts_rank(q, c)]), limit)

\* _ann_search: ... WHERE embedding IS NOT NULL AND embedding_status = 'done'
\*              AND pii_detected = false ORDER BY embedding <=> q LIMIT %s
ann_search(table, q, limit) ==
    LET rows == {c \in DOMAIN table : /\ table[c].embedding # NULL
                                       /\ table[c].status = "done"
                                       /\ ~table[c].pii_detected}
    IN Prefix(SortedByScore(Ascending(rows), [c \in rows |-> cosine_similarity(q, c)]), limit)

\* Ids of the documents with deleted_at IS NULL.
LiveDocuments == {d.id : d \in {x \in documents : x.deleted_at = NoTime}}

\* _fetch_chunk_details: the ids that join a document with deleted_at IS NULL
\* (`live` holds the ids of those documents).
fetch_chunk_details(table, live, chunk_ids) ==
    {c \in Range(chunk_ids) : table[c].document_id \in live}

\* rerank(query, candidates): None below 5 candidates or without the model,
\* else the scores of the candidates.
rerank(q, candidates, model_ok) ==
    IF Len(candidates) < 5 \/ ~model_ok THEN <<>>
    ELSE [i \in 1..Len(candidates) |-> predict(q, candidates[i])]
RerankIsNone(q, candidates, model_ok) == Len(candidates) < 5 \/ ~model_ok

\* Mutant: degraded whenever rerank returned None, whatever the number of
\* candidates.
Degraded_WheneverNone(embedding_ok, none, n) == (~embedding_ok) \/ none
\* degraded: set when the embedding is missing (else branch of `if embedding`)
\* and when rerank returned None for at least 5 valid ids.
Degraded(embedding_ok, none, n) == (~embedding_ok) \/ (none /\ n >= 5)

\* use_weighted: a weight differs from 0.5 by more than 0.01.
Abs(x) == IF x < 0 THEN 0 - x ELSE x
use_weighted(cfg) == Abs(cfg.bm25_weight - 50) > 1 \/ Abs(cfg.vector_weight - 50) > 1

\* The body of search below the cache lookup, over chunks table `table`,
\* live documents `live` and config weights `w`.
SearchBody(table, live, q, limit, embedding_ok, model_ok, w) ==
    LET bm25_ids == bm25_search(table, q, candidate_limit)
        bm25_scores == [c \in Range(bm25_ids) |-> ts_rank(q, c)]
        ann_ids == IF embedding_ok THEN ann_search(table, q, candidate_limit) ELSE <<>>
        ann_scores == [c \in Range(ann_ids) |-> cosine_similarity(q, c)]
        cfg == [bm25_weight |-> w[1], vector_weight |-> w[2]]
        merged_ids == IF use_weighted(cfg) /\ DOMAIN ann_scores # {}
                      THEN weighted_merge(bm25_scores, ann_scores, w[1], w[2])
                      ELSE rrf_merge(bm25_ids, ann_ids, rrf_k)
        top_ids == Prefix(merged_ids, limit * 5)
        details == fetch_chunk_details(table, live, top_ids)
        valid_ids == SelectSeq(top_ids, LAMBDA c : c \in details)
        none == RerankIsNone(q, valid_ids, model_ok)
        scores == rerank(q, valid_ids, model_ok)
        rerank_scores == [c \in Range(valid_ids) |->
                            scores[CHOOSE i \in 1..Len(valid_ids) : valid_ids[i] = c]]
        sorted_ids == IF none THEN valid_ids
                      ELSE SortedByScore(valid_ids, rerank_scores)
    IN [value |-> [results |-> Prefix(sorted_ids, limit),
                   degraded |-> Degraded(embedding_ok, none, Len(valid_ids)),
                   query |-> q],
        fusion |-> valid_ids,
        rerank_none |-> none]

\* The chunks table of the search specification (no action of it writes to
\* the table) and the outcome of the body of search for every request over
\* it.
SearchChunks == [c \in 1..(NSearchChunks + 2) |-> SearchChunkRow(c)]
SearchBodyTable ==
    {<<x, SearchBody(SearchChunks, x[1], x[2], x[3], x[4], x[5], x[6])>> :
        x \in (SUBSET SearchDocs) \X Queries \X Limits \X BOOLEAN \X BOOLEAN
               \X Weights}
Pipeline(q, limit, embedding_ok, model_ok) ==
    (CHOOSE row \in SearchBodyTable :
        row[1] = <<LiveDocuments, q, limit, embedding_ok, model_ok,
                   <<config.bm25_weight, config.vector_weight>>>>)[2]

\* _cache_get: the value of an entry that has not expired.
CacheHit_IgnoresExpiry(key) == key \in DOMAIN cache
CacheHit(key) == key \in DOMAIN cache /\ cache[key].expires_at > clock

\* _cache.pop(key, None)
CachePop(key) == [k \in DOMAIN cache \ {key} |-> cache[k]]
\* _cache[key] = (time.monotonic() + ttl, value)
CacheSet(c, key, value, ttl) ==
    [k \in DOMAIN c \cup {key} |->
        IF k = key THEN [expires_at |-> clock + ttl, value |-> value] ELSE c[k]]

\* POST /search answered from the cache.
SearchCached(q, limit) ==
    /\ served < MaxRequests
    /\ CacheHit(<<q, limit>>)
    /\ served' = served + 1
    /\ response' = [op |-> "search", key |-> <<q, limit>>,
                    cached |-> TRUE, value |-> cache[<<q, limit>>].value,
                    embedding_ok |-> FALSE, rerank_none |-> FALSE, fusion |-> <<>>]
    /\ UNCHANGED <<cache, clock, config, deletion_log, chunks,
                   documents, persons, outbox>>

\* POST /search that runs the pipeline; the embedding endpoint and the
\* reranker model are available or not.
SearchPipeline(q, limit, embedding_ok, model_ok) ==
    /\ served < MaxRequests
    /\ ~CacheHit(<<q, limit>>)
    /\ LET run == Pipeline(q, limit, embedding_ok, model_ok) IN
       /\ cache' = CacheSet(CachePop(<<q, limit>>), <<q, limit>>, run.value,
                            config.search_cache_ttl)
       /\ response' = [op |-> "search", key |-> <<q, limit>>,
                       cached |-> FALSE, value |-> run.value,
                       embedding_ok |-> embedding_ok,
                       rerank_none |-> run.rerank_none, fusion |-> run.fusion]
    /\ served' = served + 1
    /\ UNCHANGED <<clock, config, deletion_log, chunks, documents,
                   persons, outbox>>

\* DELETE /entities/document/{id}: soft_delete of a document that is not
\* deleted yet.
SoftDeleteDocument(id) ==
    /\ \E d \in documents :
          /\ d.id = id /\ d.deleted_at = NoTime
          /\ documents' = (documents \ {d}) \cup {[d EXCEPT !.deleted_at = clock]}
    /\ outbox' = Append(outbox, [event_type |-> "entity_deleted", doc_id |-> 0,
                                 entity_id |-> id, processed_at |-> NULL,
                                 attempts |-> 0, failed |-> FALSE,
                                 error |-> NULL])
    /\ UNCHANGED <<cache, clock, config, response, served,
                   deletion_log, chunks, persons>>

\* Time passes.
Tick ==
    /\ clock < MaxClock
    /\ clock' = clock + 1
    /\ UNCHANGED <<cache, config, response, served, deletion_log,
                   chunks, documents, persons, outbox>>

\* The operator changes search_cache_ttl in the config table.
SetSearchCacheTtl(ttl) ==
    /\ ttl # config.search_cache_ttl
    /\ config' = [config EXCEPT !.search_cache_ttl = ttl]
    /\ UNCHANGED <<cache, clock, response, served, deletion_log, chunks,
                   documents, persons, outbox>>

\* POST /config: update_config sets bm25_weight and vector_weight.
update_config(w) ==
    /\ <<config.bm25_weight, config.vector_weight>> # w
    /\ config' = [config EXCEPT !.bm25_weight = w[1], !.vector_weight = w[2]]
    /\ UNCHANGED <<cache, clock, response, served, deletion_log, chunks,
                   documents, persons, outbox>>

\* What the search specification leaves alone.
searchFrame == <<workerVars, dead_letter, write_failed_log, next_id, t_pc,
                 t_call, watchVars, drainVars, fnVars, poolVars>>

SearchInit ==
    /\ chunks = SearchChunks
    /\ w_pc = [w \in Workers |-> "cancelled"]
    /\ w_ids = [w \in Workers |-> {}]
    /\ w_retry_counts = [w \in Workers |-> <<>>]
    /\ consecutive_errors = [w \in Workers |-> 0]
    /\ documents = {[id |-> d, deleted_at |-> NoTime] : d \in SearchDocs}
    /\ persons = <<>>
    /\ outbox = <<>>
    /\ dead_letter = {}
    /\ write_failed_log = {}
    /\ next_id = 0
    /\ t_pc = [t \in Tasks |-> "idle"]
    /\ t_call = [t \in Tasks |-> NoCall]
    /\ WatcherOff
    /\ DrainerOff
    /\ cache = <<>>
    /\ clock = 0
    /\ \E ttl \in SearchTtls : config = [DefaultConfig EXCEPT !.search_cache_ttl = ttl]
    /\ response = NoResponse
    /\ served = 0
    /\ deletion_log = <<>>
    /\ FnOff
    /\ PoolOff

SearchNext ==
    \/ \E key \in SearchKeys :
          SearchCached(key[1], key[2]) /\ UNCHANGED searchFrame
    \/ \E key \in SearchKeys : \E e \in BOOLEAN : \E m \in BOOLEAN :
          SearchPipeline(key[1], key[2], e, m) /\ UNCHANGED searchFrame
    \/ \E d \in SearchDocs : SoftDeleteDocument(d) /\ UNCHANGED searchFrame
    \/ Tick /\ UNCHANGED searchFrame
    \/ \E ttl \in SearchTtls : SetSearchCacheTtl(ttl) /\ UNCHANGED searchFrame
    \/ \E w \in Weights : update_config(w) /\ UNCHANGED searchFrame

SearchSpec == SearchInit /\ [][SearchNext]_vars

\* ------------------------------------------------------------------ claims

\* C1: in every reachable state every chunk has a non-null embedding exactly
\* when its embedding_status is 'done'.
C1_EmbeddingIffDone ==
    \A c \in ChunkIds : (chunks[c].embedding # NULL) <=> (chunks[c].status = "done")

\* C1 witness: one chunk is done with its vector while another one went
\* through the failure path to 'failed'.
C1_Witness ==
    \E c, d \in ChunkIds :
        /\ chunks[c].status = "done" /\ chunks[c].embedding = Vec
        /\ chunks[d].status = "failed" /\ chunks[d].retry_count = retry_max

\* C2 (as claimed): whenever a worker has handled a failed batch outside the
\* fallback by writing the retry update, every claimed chunk's retry_count
\* grew by exactly 1 and its status is 'failed' at retry_max, else 'pending'.
C2_FailureBumpsRetry ==
    [][\A w \in Workers :
          (/\ w_pc[w] = "apply" /\ w_pc'[w] = "poll"
           /\ consecutive_errors'[w] = consecutive_errors[w])
          => \A c \in w_ids[w] :
                /\ chunks'[c].retry_count = chunks[c].retry_count + 1
                /\ chunks'[c].status = StatusAfterRetry(chunks[c].retry_count + 1)]_vars

\* C3 (as claimed): under fair scheduling of the workers every pending chunk
\* eventually becomes 'done' or 'failed', however the embedding calls fail.
C3_PendingEventuallyTerminal ==
    \A c \in ChunkIds :
        (chunks[c].status = "pending") ~> (chunks[c].status \in {"done", "failed"})

\* C4: no chunk is held by two workers at once, a worker takes hold only of
\* chunks that are 'pending' at that moment, and a chunk is written 'done'
\* only by a worker that holds it.
C4_ExclusiveClaim ==
    [][/\ \A w1, w2 \in Workers : w1 # w2 => Held(w1)' \cap Held(w2)' = {}
       /\ \A w \in Workers : \A c \in Held(w)' \ Held(w) :
              chunks[c].status = "pending"
       /\ \A c \in ChunkIds :
              (chunks'[c].status = "done" /\ chunks[c].status # "done")
              => \E w \in Workers : c \in Held(w) /\ w_pc[w] # "claim_tx"]_vars

\* C4 witness: both workers hold a committed claim at the same time.
C4_Witness ==
    /\ w_pc[1] \in {"embed", "fallback", "apply"} /\ w_ids[1] # {}
    /\ w_pc[2] \in {"embed", "fallback", "apply"} /\ w_ids[2] # {}

\* C5 (as claimed): when a worker is cancelled, every chunk it had claimed and
\* not written back is 'pending' afterwards.
C5_CancelReturnsClaim ==
    [][\A w \in Workers :
          (w_pc[w] # "cancelled" /\ w_pc'[w] = "cancelled")
          => \A c \in Held(w) : chunks'[c].status = "pending"]_vars

\* C6 (as claimed): every chunk that leaves the one-at-a-time fallback of an
\* iteration that is not cancelled is either 'done' with its vector and its
\* retry_count unchanged, or has retry_count + 1 and the status that follows.
C6_FallbackSettlesEachChunk ==
    [][\A w \in Workers :
          (w_pc[w] = "fallback" /\ w_pc'[w] # "cancelled")
          => \A c \in w_ids[w] \ w_ids'[w] :
                \/ chunks'[c] = [chunks[c] EXCEPT !.status = "done", !.embedding = Vec]
                \/ chunks'[c] = [chunks[c] EXCEPT
                       !.retry_count = @ + 1,
                       !.status = StatusAfterRetry(chunks[c].retry_count + 1)]]_vars

\* C7: a step of a worker changes a chunk row only if the row is 'pending'
\* and becomes 'processing', or is 'processing' and held by a worker; the
\* claim statement selects 'pending' rows only.  Rows in 'failed' or 'done'
\* are never touched by a worker.
C7_WorkerTouchesOnlyItsClaim ==
    [][workerVars' # workerVars =>
          /\ \A w \in Workers :
                 (w_pc[w] = "poll" /\ w_pc'[w] = "claim_tx")
                 => \A c \in w_ids'[w] : chunks[c].status = "pending"
          /\ \A c \in ChunkIds : chunks'[c] # chunks[c] =>
                 \/ /\ chunks[c].status = "pending"
                    /\ chunks'[c] = [chunks[c] EXCEPT !.status = "processing"]
                 \/ /\ chunks[c].status = "processing"
                    /\ \E w \in Workers : c \in Held(w)]_vars

\* C7 witness: a worker has polled while one chunk was 'failed' and the other
\* 'done', and its claim statement returned no row.
C7_Witness ==
    \E w \in Workers : \E c, d \in ChunkIds :
        /\ w_pc[w] = "claim_tx" /\ w_ids[w] = {}
        /\ chunks[c].status = "failed" /\ chunks[d].status = "done"

\* The errors with which an ingest_document call fails.
IngestErrors == {"TypeError", "UniqueViolation", "db_error"}

\* C8: every committed document has exactly one document_added outbox row
\* carrying its id, every document_added row belongs to a committed document,
\* and a call that failed has left neither a document nor an outbox row.
C8_OneOutboxEventPerDocument ==
    /\ \A d \in documents :
          Cardinality({i \in DOMAIN outbox :
              outbox[i].event_type = "document_added" /\ outbox[i].doc_id = d.id}) = 1
    /\ \A i \in DOMAIN outbox :
          outbox[i].event_type = "document_added"
          => \E d \in documents : d.id = outbox[i].doc_id
    /\ \A t \in Tasks :
          t_pc[t] \in {"except", "raised"}
          => /\ \A d \in documents : d.id # t_call[t].doc_id
             /\ \A i \in DOMAIN outbox : outbox[i].doc_id # t_call[t].doc_id

\* C8 witness: one ingest has committed and a later one, which had drawn its
\* document id, has failed.
C8_Witness ==
    \E t \in Tasks :
        /\ t_pc[t] = "raised" /\ t_call[t].doc_id # 0
        /\ documents # {} /\ Len(outbox) = Cardinality(documents)

\* C9 (as claimed): when _handle_file has handled a failed ingest_document
\* call, the dead_letter table holds a row with the file's path and the error.
C9_FailedIngestDeadLettered ==
    [][\A t \in Tasks :
          (/\ t_pc[t] = "except" /\ t_pc'[t] = "idle"
           /\ t_call[t].error \in IngestErrors)
          => \E r \in dead_letter' :
                r.file_path = t_call[t].source_path /\ r.error = t_call[t].error]_vars

\* C9 (amended): the store tables change only in the step in which an ingest
\* commits; a failed call leaves no document, outbox or chunk row of its own,
\* its error reaches the caller, and _handle_file then writes the dead-letter
\* row (path, error) or, when that write fails too, logs
\* dead_letter_write_failed for the path and writes nothing.
C9_FailedIngestInvisible ==
    [][/\ (documents' # documents \/ persons' # persons \/ outbox' # outbox
            \/ chunks' # chunks)
          => \E t \in Tasks : t_pc[t] = "tx_written" /\ t_pc'[t] \in {"idle", "call"}
       /\ \A t \in Tasks :
             (t_pc[t] \in {"call", "tx", "tx_written"} /\ t_pc'[t] # t_pc[t]
              /\ t_pc'[t] \notin {"idle", "tx", "tx_written"})
             => /\ t_pc'[t] = IF t_call[t].caller = "handle_file"
                              THEN "except" ELSE "raised"
                /\ t_call'[t].error \in IngestErrors
                /\ \A d \in documents' : d.id # t_call'[t].doc_id
                /\ \A i \in DOMAIN outbox' : outbox'[i].doc_id # t_call'[t].doc_id
                /\ \A c \in DOMAIN chunks' : chunks'[c].document_id # t_call'[t].doc_id
       /\ \A t \in Tasks :
             (/\ t_pc[t] = "except" /\ t_pc'[t] = "idle"
              /\ t_call[t].error \in IngestErrors)
             => \/ /\ dead_letter' = dead_letter \cup
                          {[file_path |-> t_call[t].source_path,
                            error |-> t_call[t].error]}
                   /\ write_failed_log' = write_failed_log
                \/ /\ dead_letter' = dead_letter
                   /\ t_call[t].source_path \in write_failed_log']_vars

\* C9 witness: a failed ingest has been dead-lettered with its error while a
\* document is committed, and one dead-letter write has failed.
C9_Witness ==
    /\ \E r \in dead_letter : r.error \in IngestErrors
    /\ write_failed_log # {}
    /\ documents # {}

\* C10 (as claimed): every visible document has one chunk row per chunker
\* output, each 'pending' with retry_count 0.
C10_ChunksVisibleWithDocument ==
    \A d \in documents :
        Cardinality({c \in DOMAIN chunks :
            /\ chunks[c].document_id = d.id
            /\ chunks[c].status = "pending"
            /\ chunks[c].retry_count = 0}) = FileChunks(d.source_path)

\* The errors with which the store itself fails (connection lost, timeout).
StoreErrors == {"db_error", "dead_letter_error"}

\* The documents with a given fingerprint, and the document_added events of a
\* set of documents.
DocsWithSha(docs, sha) == {d \in docs : d.sha256 = sha}
EventsOf(ob, docs) ==
    {i \in DOMAIN ob : ob[i].event_type = "document_added"
                        /\ \E d \in docs : d.id = ob[i].doc_id}

\* C11 (as claimed): no two document rows share a fingerprint, and when
\* _handle_file has finished with a file of a supported type (the store did
\* not fail), exactly one document and exactly one document_added event exist
\* for the file's fingerprint.
C11_OneDocumentPerFingerprint ==
    [][/\ \A d1, d2 \in documents' : d1.sha256 = d2.sha256 => d1 = d2
       /\ \A t \in Tasks :
             (/\ t_call[t].caller = "handle_file"
              /\ t_pc[t] \in {"start", "except", "tx_written"} /\ t_pc'[t] = "idle"
              /\ FileType(t_call[t].source_path) # "unknown"
              /\ t_call[t].error \notin StoreErrors)
             => /\ Cardinality(DocsWithSha(documents', t_call[t].sha256)) = 1
                /\ Cardinality(EventsOf(outbox',
                       DocsWithSha(documents', t_call[t].sha256))) = 1]_vars

\* C12 (as claimed): when _handle_file has finished with a mail archive of N
\* parsable messages (the store did not fail), N document rows and N
\* document_added events exist for the archive.
C12_OneDocumentPerMessage ==
    [][\A t \in Tasks :
          (/\ t_call[t].caller = "handle_file"
           /\ t_pc[t] \in {"except", "tx_written"} /\ t_pc'[t] = "idle"
           /\ FileType(t_call[t].source_path) = "mbox"
           /\ t_call[t].error \notin StoreErrors)
          => LET docs == {d \in documents' : d.source_path = t_call[t].source_path} IN
             /\ Cardinality(docs) = FileMessages(t_call[t].source_path)
             /\ Cardinality(EventsOf(outbox', docs)) = FileMessages(t_call[t].source_path)]_vars

\* C13: when _handle_file is handed a file whose fingerprint is stored, its
\* next step is the return: no document, person, chunk, outbox or dead-letter
\* row is written, nothing is logged as failed and no error is recorded.
C13_DuplicateIsSilent ==
    [][\A t \in Tasks :
          (/\ t_pc[t] = "start" /\ t_pc'[t] # "start"
           /\ \E d \in documents : d.sha256 = t_call[t].sha256)
          => /\ t_pc'[t] = "idle"
             /\ t_call[t].error = "none"
             /\ UNCHANGED <<documents, persons, chunks, outbox, dead_letter,
                            write_failed_log, next_id>>]_vars

\* C13 witness: a file whose fingerprint is stored has been handed to
\* _handle_file.
C13_Witness ==
    \E t \in Tasks :
        /\ t_pc[t] = "start"
        /\ \E d \in documents : d.sha256 = t_call[t].sha256

\* C14 (as claimed): a path is handed to handle_file only in a step in which
\* the .pause sentinel does not exist.
C14_NoDispatchWhilePaused ==
    [][dispatched' # dispatched => ~pause_sentinel]_vars

\* C15 (as claimed): a file that lies in the drop zone while the watcher is
\* not paused and has nothing left to consume is eventually dispatched (or the
\* watcher is paused again).
C15_CopiedWhilePausedIngestedAfterResume ==
    \A f \in Files :
        (f \in zone /\ ~pause_sentinel /\ wt_pc = "await" /\ changes = {})
        ~> (f \in dispatched \/ pause_sentinel)

\* C16 (as claimed): a row is dead-lettered (failed = true) only after
\* OUTBOX_MAX_ATTEMPTS calls of _apply_outbox_event have been made for it.
C16_DeadLetterAfterMaxAttempts ==
    \A i \in DOMAIN outbox :
        outbox[i].failed => applies[i] >= OUTBOX_MAX_ATTEMPTS

\* The drainer is between the mark and the end of the handling of row i.
InProgress(i) == dr_pc \in {"marked", "rollback"} /\ Head(dr_rows).id = i

\* C17 (as claimed): every row of an applied event type whose processed_at
\* is set, and which the drainer is not handling right now, has had its
\* mutation applied to the graph.
C17_ProcessedMeansApplied ==
    \A i \in DOMAIN outbox :
        (/\ outbox[i].processed_at # NULL
         /\ outbox[i].event_type \in AppliedTypes
         /\ ~InProgress(i))
        => written[i] > 0

\* C18 (as claimed): when _apply_outbox_event is called for a row, no row
\* created earlier is unprocessed and not dead-lettered.
C18_AppliedInCreatedOrder ==
    [][\A j \in DOMAIN outbox :
          applies'[j] > applies[j]
          => \A i \in 1..(j - 1) :
                ~(outbox[i].processed_at = NULL /\ ~outbox[i].failed)]_vars

\* C19 (as claimed): when _apply_outbox_event returns for a row, which stays
\* marked processed, a graph write has been issued for it, and after an
\* entity_deleted or entity_hard_deleted event the graph holds no node with
\* the event's id.
C19_EveryTypeApplied ==
    [][\A i \in DOMAIN outbox :
          (/\ dr_pc = "marked" /\ Head(dr_rows).id = i
           /\ dr_pc' \in {"row", "select"}
           /\ applies'[i] = applies[i] + 1)
          => /\ written'[i] > 0
             /\ outbox[i].event_type \in {"entity_deleted", "entity_hard_deleted"}
                => \A n \in BagToSet(graph'.nodes) : n.id # outbox[i].entity_id]_vars

\* C20: for every committed event of a type the drainer applies, in every
\* reachable graph, applying the event twice gives the graph that applying
\* it once gives.
C20_ReplayIsIdempotent ==
    \A i \in DOMAIN outbox :
        outbox[i].event_type \in AppliedTypes
        => ApplyEvent(ApplyEvent(graph, outbox[i]), outbox[i])
           = ApplyEvent(graph, outbox[i])

\* C20 witness: the mutation of an event has been applied to the graph twice
\* (a replay after a lost reply), with nodes and edges in the graph.
C20_Witness ==
    /\ \E i \in DOMAIN written :
          written[i] = 2 /\ outbox[i].event_type = "document_added"
    /\ graph.edges # {}

\* The document a returned chunk belongs to is soft-deleted.
ResultDeleted(docs, c) ==
    \E d \in docs : d.id = chunks[c].document_id /\ d.deleted_at # NoTime

\* C21: every search response, computed or served from the cache, holds only
\* chunks of documents that are not soft-deleted when it is returned.
C21_NoSoftDeletedInResults ==
    [][(served' # served /\ response'.op = "search")
        => \A c \in Range(response'.value.results) : ~ResultDeleted(documents', c)]_vars

\* C22: a search whose key has an entry that has not expired returns that
\* entry's value and runs no pipeline (the cache is left as it is); an entry
\* is stored with the expiry clock + config.search_cache_ttl of that moment and a
\* search at or after its expiry runs the pipeline again; a search changes no
\* entry of another key, and nothing but a search changes the cache.
C22_CacheHitShortCircuits ==
    [][/\ (served' # served /\ response'.op = "search") =>
            LET key == response'.key
                live == key \in DOMAIN cache /\ cache[key].expires_at > clock
            IN /\ live => /\ response'.cached
                           /\ response'.value = cache[key].value
                           /\ cache' = cache
               /\ ~live => /\ ~response'.cached
                            /\ key \in DOMAIN cache'
                            /\ cache'[key] = [expires_at |-> clock + config.search_cache_ttl,
                                              value |-> response'.value]
               /\ \A k \in SearchKeys \ {key} :
                     /\ (k \in DOMAIN cache') <=> (k \in DOMAIN cache)
                     /\ k \in DOMAIN cache => cache'[k] = cache[k]
       /\ cache' # cache => served' # served]_vars

\* C22 witness: the last request was answered from the cache, and its entry,
\* stored at an earlier tick, has not expired.
C22_Witness ==
    /\ response.op = "search"
    /\ response.cached
    /\ clock > 0
    /\ cache[response.key].expires_at > clock

\* C23 as stated: whenever the response is degraded the results are in fusion
\* order.
C23_DegradedKeepsFusionOrder ==
    (response.op = "search" /\ ~response.cached /\ response.value.degraded)
        => response.value.results = Prefix(response.fusion, response.key[2])

\* C23 amended: a computed response is degraded exactly when the embedding was
\* not obtained or rerank returned None for 5 or more hydrated candidates;
\* when rerank returned None the results are the hydrated candidates in fusion
\* order, otherwise they are in descending rerank score; a query without
\* lexical matches and without embedding yields no results and degraded.
C23_DegradedExactly ==
    (response.op = "search" /\ ~response.cached) =>
        LET q == response.key[1]
            limit == response.key[2]
            r == response.value.results
        IN /\ response.value.degraded <=>
                 \/ ~response.embedding_ok
                 \/ response.rerank_none /\ Len(response.fusion) >= 5
           /\ response.rerank_none => r = Prefix(response.fusion, limit)
           /\ ~response.rerank_none =>
                 /\ Len(response.fusion) >= 5
                 /\ Range(r) \subseteq Range(response.fusion)
                 /\ \A i, j \in 1..Len(r) : i < j => predict(q, r[i]) >= predict(q, r[j])
           /\ ((\A c \in DOMAIN chunks : ~LexicalMatch(q, c)) /\ ~response.embedding_ok)
                 => r = <<>> /\ response.value.degraded

\* C23 witness: the embedding was obtained, the reranker was unavailable for
\* 5 or more hydrated candidates: degraded, fusion order kept.
C23_Witness ==
    /\ response.op = "search"
    /\ ~response.cached
    /\ response.embedding_ok
    /\ response.rerank_none
    /\ Len(response.fusion) >= 5
    /\ response.value.degraded

\* ---------------------------------------------------------------------------
\* Pure functions called with arguments drawn from bounded sets.
\* ---------------------------------------------------------------------------

\* No store, no worker, no watcher, no drainer, no API request takes part.
StoreOff ==
    /\ chunks = <<>>
    /\ w_pc = [w \in Workers |-> "cancelled"]
    /\ w_ids = [w \in Workers |-> {}]
    /\ w_retry_counts = [w \in Workers |-> <<>>]
    /\ consecutive_errors = [w \in Workers |-> 0]
    /\ documents = {}
    /\ persons = <<>>
    /\ outbox = <<>>
    /\ dead_letter = {}
    /\ write_failed_log = {}
    /\ next_id = 0
    /\ t_pc = [t \in Tasks |-> "idle"]
    /\ t_call = [t \in Tasks |-> NoCall]
    /\ WatcherOff
    /\ DrainerOff
    /\ ApiOff
    /\ PoolOff

fnFrame == <<chunks, workerVars, documents, persons, outbox, dead_letter,
             write_failed_log, next_id, t_pc, t_call, watchVars, drainVars,
             apiVars, poolVars>>

\* ---- rrf_merge ----

RankIds == 1..NRankIds
\* Ranked id lists: the ids of a query's rows, best first, each id once.
RankedLists ==
    {s \in UNION {[1..n -> RankIds] : n \in 0..MaxRankLen} :
        \A i, j \in DOMAIN s : i # j => s[i] # s[j]}
RrfKs == {0, 1, 60}

RrfInit ==
    /\ StoreOff
    /\ \E a \in RankedLists, b \in RankedLists, k \in RrfKs :
           args = [fn |-> "rrf_merge", bm25_ids |-> a, ann_ids |-> b, k |-> k,
                   done |-> FALSE]
    /\ result = <<>>

CallRrfMerge ==
    /\ args.fn = "rrf_merge"
    /\ ~args.done
    /\ result' = rrf_merge(args.bm25_ids, args.ann_ids, args.k)
    /\ args' = [args EXCEPT !.done = TRUE]

RrfNext == CallRrfMerge /\ UNCHANGED fnFrame

RrfSpec == RrfInit /\ [][RrfNext]_vars

\* C24: rrf_merge(A, B, k) and rrf_merge(B, A, k) are the same list, ties on
\* score included, and the output holds exactly the ids of A or B, each once.
C24_RrfMergeCommutative ==
    (args.fn = "rrf_merge" /\ args.done) =>
        /\ result = rrf_merge(args.ann_ids, args.bm25_ids, args.k)
        /\ Range(result) = Range(args.bm25_ids) \cup Range(args.ann_ids)
        /\ Len(result) = Cardinality(Range(result))

\* ---- chunk_text ----
\* A text is a list of sentences as re.split yields them; a sentence is the
\* list of the lengths of its words, which single spaces separate.

WordLens == {200, 1900, 2100}
ChunkSizes == {1000, 1800, 2500}
Overlaps == {0, 200}
Sentences == UNION {[1..n -> WordLens] : n \in 1..MaxWords}
Texts == UNION {[1..n -> Sentences] : n \in 0..MaxSentences}

RECURSIVE SumLens(_)
SumLens(words) ==
    IF words = <<>> THEN 0 ELSE Head(words) + SumLens(Tail(words))

\* len(" ".join(words))
JoinLen(words) ==
    IF words = <<>> THEN 0 ELSE SumLens(words) + Len(words) - 1

\* Chunk(chunk_idx, chunk_str, len(chunk_str))
Chunk(index, words) ==
    [index |-> index, text |-> words, char_count |-> JoinLen(words)]

\* The loop over the words of a sentence longer than the ceiling.
RECURSIVE SplitWords(_, _, _)
SplitWords(words, i, st) ==
    IF i > Len(words) THEN st
    ELSE LET word == words[i]
             added == word + (IF st.buf # <<>> THEN 1 ELSE 0)
             full == st.buf_chars + added > MAX_CHUNK_CHARS /\ st.buf # <<>>
             flushed ==
                 IF full
                 THEN [chunks |-> Append(st.chunks, Chunk(st.chunk_idx, st.buf)),
                       chunk_idx |-> st.chunk_idx + 1,
                       buf |-> <<>>, buf_chars |-> 0]
                 ELSE st
         IN SplitWords(words, i + 1,
                [flushed EXCEPT !.buf = Append(@, word),
                                !.buf_chars = @ + added])

\* The loop over reversed(chunk_str.split()) that seeds the next chunk.
RECURSIVE OverlapSeed(_, _, _, _)
OverlapSeed(words, i, overlap, st) ==
    IF i = 0 THEN st
    ELSE LET added == words[i] + (IF st.overlap_words # <<>> THEN 1 ELSE 0)
         IN IF st.overlap_chars + added > overlap THEN st
            ELSE OverlapSeed(words, i - 1, overlap,
                     [overlap_words |-> <<words[i]>> \o st.overlap_words,
                      overlap_chars |-> st.overlap_chars + added])

\* One iteration of the loop over the sentences.
ChunkSentence(sentence, target, overlap, st) ==
    LET s_len == JoinLen(sentence)
        flushed ==
            IF st.current # <<>>
            THEN [st EXCEPT !.chunks = Append(@, Chunk(st.chunk_idx, st.current)),
                            !.chunk_idx = @ + 1,
                            !.current = <<>>, !.current_chars = 0]
            ELSE st
    IN IF s_len > MAX_CHUNK_CHARS
       THEN LET split == SplitWords(sentence, 1,
                             [chunks |-> flushed.chunks,
                              chunk_idx |-> flushed.chunk_idx,
                              buf |-> <<>>, buf_chars |-> 0])
            IN IF split.buf # <<>>
               THEN [chunks |-> split.chunks, chunk_idx |-> split.chunk_idx,
                     current |-> split.buf, current_chars |-> split.buf_chars]
               ELSE [chunks |-> split.chunks, chunk_idx |-> split.chunk_idx,
                     current |-> flushed.current,
                     current_chars |-> flushed.current_chars]
       ELSE LET seeded ==
                    IF st.current_chars + s_len + 1 > target /\ st.current # <<>>
                    THEN LET seed == OverlapSeed(st.current, Len(st.current),
                                         overlap,
                                         [overlap_words |-> <<>>,
                                          overlap_chars |-> 0])
                         IN [flushed EXCEPT !.current = seed.overlap_words,
                                            !.current_chars = seed.overlap_chars]
                    ELSE st
            IN [seeded EXCEPT
                   !.current = @ \o sentence,
                   !.current_chars =
                       @ + s_len + (IF seeded.current # <<>> THEN 1 ELSE 0)]

RECURSIVE ChunkLoop(_, _, _, _, _)
ChunkLoop(sentences, i, target, overlap, st) ==
    IF i > Len(sentences) THEN st
    ELSE ChunkLoop(sentences, i + 1, target, overlap,
             ChunkSentence(sentences[i], target, overlap, st))

chunk_text(text, chunk_size, overlap) ==
    IF text = <<>> THEN <<>>
    ELSE LET target == Min2(chunk_size, MAX_CHUNK_CHARS)
             st == ChunkLoop(text, 1, target, overlap,
                       [chunks |-> <<>>, chunk_idx |-> 0,
                        current |-> <<>>, current_chars |-> 0])
         IN IF st.current # <<>>
            THEN Append(st.chunks, Chunk(st.chunk_idx, st.current))
            ELSE st.chunks

ChunkInit ==
    /\ StoreOff
    /\ \E text \in Texts, chunk_size \in ChunkSizes, overlap \in Overlaps :
           args = [fn |-> "chunk_text", text |-> text,
                   chunk_size |-> chunk_size, overlap |-> overlap,
                   done |-> FALSE]
    /\ result = <<>>

CallChunkText ==
    /\ args.fn = "chunk_text"
    /\ ~args.done
    /\ result' = chunk_text(args.text, args.chunk_size, args.overlap)
    /\ args' = [args EXCEPT !.done = TRUE]

ChunkNext == CallChunkText /\ UNCHANGED fnFrame

ChunkSpec == ChunkInit /\ [][ChunkNext]_vars

\* C25: every chunk chunk_text returns has char_count equal to the length of
\* its text and at most MAX_CHUNK_CHARS, whatever the text, chunk_size and
\* overlap.
C25_ChunkWithinCeiling ==
    (args.fn = "chunk_text" /\ args.done) =>
        \A i \in DOMAIN result :
            /\ result[i].char_count = JoinLen(result[i].text)
            /\ result[i].char_count <= MAX_CHUNK_CHARS

\* ---------------------------------------------------------------------------
\* The entities endpoints: soft_delete, hard_delete, merge_entities,
\* update_entity.  One tick of the clock is one day.
\* ---------------------------------------------------------------------------

\* now() - INTERVAL '30 days'
RETENTION_DAYS == 30
PERSON_UPDATABLE == {"display_name", "email", "pii"}
DOCUMENT_UPDATABLE == {"source_path"}

EntityDocs == {1, 2}
EntityPersons == {1, 2, 3}
PersonNames == {"a", "b", "c"}
\* deleted_at of the rows that were soft-deleted before the first request:
\* 31 days ago, or exactly 30 days ago.
OldDeletions == {0 - 31, 0 - 30}
\* client_updated_at of a PUT: a copy read three days ago, or read today; the
\* rows were last updated two days ago, or never (updated_at IS NULL).
ClientTimes == {0 - 3, 0}
PersonDiffs ==
    {[display_name |-> "a"], [email |-> NULL],
     [pii |-> "True", merged_into |-> "3"], [deleted_at |-> NULL]}
DocumentDiffs == {[source_path |-> "p9"], [deleted_at |-> NULL]}

EntityDocumentRow(d, deleted_at) ==
    [id |-> d, deleted_at |-> deleted_at,
     updated_at |-> IF d = 1 THEN NoTime ELSE 0 - 2, source_path |-> "p1"]
EntityPersonRow(p, deleted_at) ==
    [display_name |-> IF p = 1 THEN "a" ELSE IF p = 2 THEN "b" ELSE "c",
     email |-> IF p = 1 THEN "e1" ELSE IF p = 2 THEN "e2" ELSE "e3",
     pii |-> FALSE, merged_into |-> 0, deleted_at |-> deleted_at,
     updated_at |-> IF p = 1 THEN NoTime ELSE 0 - 2]
\* Chunks 1 and 2 belong to document 1, chunk 3 to document 2.
EntityChunks == [c \in 1..3 |-> [document_id |-> IF c = 3 THEN 2 ELSE 1]]

\* Mutant: the cutoff includes the rows soft-deleted exactly 30 days ago.
Expired_Inclusive(deleted_at, now) ==
    deleted_at # NoTime /\ deleted_at <= now - RETENTION_DAYS
\* WHERE deleted_at < now() - INTERVAL '30 days' (NULL never compares).
Expired(deleted_at, now) ==
    deleted_at # NoTime /\ deleted_at < now - RETENTION_DAYS

\* chunks.document_id REFERENCES documents ON DELETE CASCADE
CascadeChunks(table, doc_ids) ==
    [c \in {x \in DOMAIN table : table[x].document_id \notin doc_ids} |-> table[c]]

\* DELETE /entities/person/{id}: soft_delete of a person not deleted yet.
SoftDeletePerson(id) ==
    /\ id \in DOMAIN persons
    /\ persons[id].deleted_at = NoTime
    /\ persons' = [persons EXCEPT ![id].deleted_at = clock]
    /\ outbox' = Append(outbox, NewOutboxRow([event_type |-> "entity_deleted",
                                              doc_id |-> 0, entity_id |-> id]))
    /\ UNCHANGED <<cache, clock, config, response, served,
                   deletion_log, chunks, documents>>

RECURSIVE HardDeletedRows(_)
HardDeletedRows(ids) ==
    IF ids = <<>> THEN <<>>
    ELSE <<NewOutboxRow([event_type |-> "entity_hard_deleted", doc_id |-> 0,
                         entity_id |-> Head(ids)])>>
         \o HardDeletedRows(Tail(ids))

\* POST /entities/hard-delete
hard_delete(confirm) ==
    /\ served < MaxRequests
    /\ served' = served + 1
    /\ IF ~confirm
       THEN /\ response' = [op |-> "hard_delete", confirm |-> FALSE,
                            status |-> 400]
            /\ UNCHANGED <<documents, persons, chunks, outbox, deletion_log>>
       ELSE LET doc_ids ==
                    Ascending({d.id : d \in {x \in documents :
                                               Expired(x.deleted_at, clock)}})
                person_ids ==
                    Ascending({x \in DOMAIN persons :
                                  Expired(persons[x].deleted_at, clock)})
                deleted_docs == Len(doc_ids)
                deleted_persons == Len(person_ids)
            IN /\ documents' = {d \in documents : ~Expired(d.deleted_at, clock)}
               /\ persons' = [x \in {y \in DOMAIN persons :
                                        ~Expired(persons[y].deleted_at, clock)}
                                 |-> persons[x]]
               /\ chunks' = CascadeChunks(chunks, Range(doc_ids))
               /\ outbox' = outbox \o HardDeletedRows(doc_ids \o person_ids)
               /\ deletion_log' =
                      Append(deletion_log,
                             [timestamp |-> clock,
                              deleted_documents |-> deleted_docs,
                              deleted_persons |-> deleted_persons,
                              doc_ids |-> doc_ids, person_ids |-> person_ids])
               /\ response' = [op |-> "hard_delete", confirm |-> TRUE,
                               status |-> 200,
                               deleted_documents |-> deleted_docs,
                               deleted_persons |-> deleted_persons,
                               deleted_chunks |-> deleted_docs]
    /\ UNCHANGED <<cache, clock, config>>

\* SELECT id FROM persons WHERE display_name = %s AND deleted_at IS NULL
PersonsNamed(name) ==
    {x \in DOMAIN persons :
        persons[x].display_name = name /\ persons[x].deleted_at = NoTime}

\* POST /entities/merge; LIMIT 1 takes any of the rows of that name.
merge_entities(name_a, name_b) ==
    /\ served < MaxRequests
    /\ served' = served + 1
    /\ IF PersonsNamed(name_a) = {} \/ PersonsNamed(name_b) = {}
       THEN /\ response' = [op |-> "merge", status |-> 404,
                            merged_from |-> 0, merged_into |-> 0]
            /\ UNCHANGED <<persons, outbox>>
       ELSE \E id_a \in PersonsNamed(name_a), id_b \in PersonsNamed(name_b) :
               /\ persons' = [persons EXCEPT ![id_b].merged_into = id_a]
               /\ outbox' = Append(outbox,
                       NewOutboxRow([event_type |-> "person_merged",
                                     doc_id |-> 0, entity_id |-> id_b]))
               /\ response' = [op |-> "merge", status |-> 200,
                               merged_from |-> id_b, merged_into |-> id_a]
    /\ UNCHANGED <<cache, clock, config, deletion_log, chunks, documents>>

\* str.lower() on the values a diff holds.
Lower(v) == IF v = "True" THEN "true" ELSE v

\* `field in safe_diffs and safe_diffs[field] is not None`
Provided(diffs, allowed, field) ==
    field \in DOMAIN diffs /\ field \in allowed /\ diffs[field] # NULL

\* The fields the UPDATE statement sets.
SetClauses(entity_type, diffs) ==
    IF entity_type = "person"
    THEN {f \in {"display_name", "email", "pii"} :
             Provided(diffs, PERSON_UPDATABLE, f)}
    ELSE {f \in {"source_path"} : Provided(diffs, DOCUMENT_UPDATABLE, f)}

UpdatedPerson(row, diffs, now) ==
    LET set_clauses == SetClauses("person", diffs)
    IN [row EXCEPT
           !.display_name = IF "display_name" \in set_clauses
                            THEN diffs.display_name ELSE @,
           !.email = IF "email" \in set_clauses THEN diffs.email ELSE @,
           !.pii = IF "pii" \in set_clauses
                   THEN Lower(diffs.pii) = "true" ELSE @,
           !.updated_at = IF set_clauses # {} THEN now ELSE @]

UpdatedDocument(row, diffs, now) ==
    LET set_clauses == SetClauses("document", diffs)
    IN [row EXCEPT
           !.source_path = IF "source_path" \in set_clauses
                           THEN diffs.source_path ELSE @,
           !.updated_at = IF set_clauses # {} THEN now ELSE @]

\* SELECT updated_at FROM {table} WHERE id = %s AND deleted_at IS NULL
LiveRows(entity_type, entity_id) ==
    IF entity_type = "document"
    THEN {d \in documents : d.id = entity_id /\ d.deleted_at = NoTime}
    ELSE {persons[x] : x \in {y \in DOMAIN persons :
                                 y = entity_id /\ persons[y].deleted_at = NoTime}}

UpdateResponse(status, entity_type, entity_id, diffs, client_ts, updated, conflict) ==
    [op |-> "update", status |-> status, entity_type |-> entity_type,
     id |-> entity_id, diffs |-> diffs, client_updated_at |-> client_ts,
     updated_fields |-> updated, conflict_detected |-> conflict]

\* PUT /entities/{entity_type}/{entity_id}
update_entity(entity_type, entity_id, diffs, client_ts) ==
    LET allowed == IF entity_type = "document" THEN DOCUMENT_UPDATABLE
                   ELSE PERSON_UPDATABLE
        safe_keys == DOMAIN diffs \cap allowed
        rows == LiveRows(entity_type, entity_id)
    IN /\ served < MaxRequests
       /\ served' = served + 1
       /\ IF safe_keys = {}
          THEN /\ response' = UpdateResponse(400, entity_type, entity_id, diffs,
                                             client_ts, {}, FALSE)
               /\ UNCHANGED <<documents, persons, outbox>>
          ELSE IF rows = {}
          THEN /\ response' = UpdateResponse(404, entity_type, entity_id, diffs,
                                             client_ts, {}, FALSE)
               /\ UNCHANGED <<documents, persons, outbox>>
          ELSE LET row == CHOOSE r \in rows : TRUE
                   server_ts == row.updated_at
                   conflict == server_ts # NoTime /\ server_ts > client_ts
               IN IF conflict
                  THEN /\ response' = UpdateResponse(200, entity_type, entity_id,
                                          diffs, client_ts, {}, TRUE)
                       /\ UNCHANGED <<documents, persons, outbox>>
                  ELSE /\ IF entity_type = "document"
                          THEN /\ documents' = (documents \ {row}) \cup
                                       {UpdatedDocument(row, diffs, clock)}
                               /\ UNCHANGED persons
                          ELSE /\ persons' = [persons EXCEPT ![entity_id] =
                                       UpdatedPerson(row, diffs, clock)]
                               /\ UNCHANGED documents
                       /\ outbox' = Append(outbox,
                              NewOutboxRow([event_type |-> "entity_updated",
                                            doc_id |-> 0,
                                            entity_id |-> entity_id]))
                       /\ response' = UpdateResponse(200, entity_type, entity_id,
                                          diffs, client_ts, safe_keys, FALSE)
       /\ UNCHANGED <<cache, clock, config, deletion_log, chunks>>

entityFrame == <<workerVars, dead_letter, write_failed_log, next_id, t_pc,
                 t_call, watchVars, drainVars, fnVars, poolVars>>

EntityInit ==
    /\ chunks = EntityChunks
    /\ w_pc = [w \in Workers |-> "cancelled"]
    /\ w_ids = [w \in Workers |-> {}]
    /\ w_retry_counts = [w \in Workers |-> <<>>]
    /\ consecutive_errors = [w \in Workers |-> 0]
    /\ \E t \in OldDeletions \cup {NoTime} :
           documents = {EntityDocumentRow(1, t), EntityDocumentRow(2, NoTime)}
    /\ \E t \in OldDeletions \cup {NoTime} :
           persons = [x \in EntityPersons |->
                         EntityPersonRow(x, IF x = 3 THEN t ELSE NoTime)]
    /\ outbox = <<>>
    /\ dead_letter = {}
    /\ write_failed_log = {}
    /\ next_id = 0
    /\ t_pc = [t \in Tasks |-> "idle"]
    /\ t_call = [t \in Tasks |-> NoCall]
    /\ WatcherOff
    /\ DrainerOff
    /\ ApiOff
    /\ FnOff
    /\ PoolOff

\* Retention: soft deletes, the passing of days and hard_delete.
RetentionNext ==
    \/ \E d \in EntityDocs : SoftDeleteDocument(d) /\ UNCHANGED entityFrame
    \/ \E x \in EntityPersons : SoftDeletePerson(x) /\ UNCHANGED entityFrame
    \/ \E confirm \in BOOLEAN : hard_delete(confirm) /\ UNCHANGED entityFrame
    \/ Tick /\ UNCHANGED entityFrame

RetentionSpec == EntityInit /\ [][RetentionNext]_vars

\* Curation: merges and PUTs, with soft deletes of persons between them.
CurationNext ==
    \/ \E x \in EntityPersons : SoftDeletePerson(x) /\ UNCHANGED entityFrame
    \/ \E name_a \in PersonNames, name_b \in PersonNames :
          merge_entities(name_a, name_b) /\ UNCHANGED entityFrame
    \/ \E x \in EntityPersons, diffs \in PersonDiffs, ts \in ClientTimes :
          update_entity("person", x, diffs, ts) /\ UNCHANGED entityFrame
    \/ \E d \in EntityDocs, diffs \in DocumentDiffs, ts \in ClientTimes :
          update_entity("document", d, diffs, ts) /\ UNCHANGED entityFrame
    \/ Tick /\ UNCHANGED entityFrame

CurationSpec == EntityInit /\ [][CurationNext]_vars

\* C26: a person whose merged_into is set is never the source of a merge
\* again: such a merge is rejected, changes nothing and enqueues no event, so
\* merged_into, once set, is never overwritten.
C26_MergedIntoNeverOverwritten ==
    [][/\ \A x \in DOMAIN persons \cap DOMAIN persons' :
              persons[x].merged_into # 0 =>
                  persons'[x].merged_into = persons[x].merged_into
       /\ (served' # served /\ response'.op = "merge"
               /\ response'.status = 200)
              => persons[response'.merged_from].merged_into = 0
       /\ (served' # served /\ response'.op = "merge"
               /\ response'.status # 200)
              => (persons' = persons /\ outbox' = outbox)]_vars

\* The rows a step removes.
RemovedDocuments == {d \in documents : \A e \in documents' : e.id # d.id}
RemovedPersons == DOMAIN persons \ DOMAIN persons'
RemovedChunks == DOMAIN chunks \ DOMAIN chunks'
\* A hard_delete request is answered by this step.
HardDeleteStep == served' # served /\ response'.op = "hard_delete"

\* C27: hard_delete without confirm=true fails and changes nothing; with
\* confirm=true it removes only documents and persons whose deleted_at is more
\* than 30 days in the past, and chunks only as the cascade of a removed
\* document, leaving every other row as it was; no other step removes a row.
C27_HardDeleteOnlyExpired ==
    [][/\ (HardDeleteStep /\ ~response'.confirm) =>
              /\ response'.status = 400
              /\ documents' = documents /\ persons' = persons
              /\ chunks' = chunks /\ outbox' = outbox
              /\ deletion_log' = deletion_log
       /\ (RemovedDocuments # {} \/ RemovedPersons # {} \/ RemovedChunks # {})
              => (HardDeleteStep /\ response'.confirm)
       /\ \A d \in RemovedDocuments :
              d.deleted_at # NoTime /\ d.deleted_at + RETENTION_DAYS < clock
       /\ \A x \in RemovedPersons :
              /\ persons[x].deleted_at # NoTime
              /\ persons[x].deleted_at + RETENTION_DAYS < clock
       /\ \A c \in RemovedChunks :
              \E d \in RemovedDocuments : d.id = chunks[c].document_id
       /\ HardDeleteStep =>
              /\ documents' = documents \ RemovedDocuments
              /\ \A x \in DOMAIN persons' : persons'[x] = persons[x]
              /\ \A c \in DOMAIN chunks' : chunks'[c] = chunks[c]]_vars

\* C27 witness: a confirmed hard_delete removed a document and its chunks
\* while a person soft-deleted exactly 30 days before and a document that is
\* not deleted are still there.
C27_Witness ==
    /\ response.op = "hard_delete"
    /\ response.confirm
    /\ response.deleted_documents = 1
    /\ DOMAIN chunks = {3}
    /\ 3 \in DOMAIN persons
    /\ persons[3].deleted_at = clock - RETENTION_DAYS
    /\ \E d \in documents : d.deleted_at = NoTime

\* The receipt a step appends to the deletion log.
NewReceipt == deletion_log'[Len(deletion_log')]

\* C28: after a confirmed hard_delete no document or person with deleted_at
\* older than 30 days remains, the deletion log has one new receipt whose
\* doc_ids and person_ids are exactly the removed rows, and the counts of the
\* receipt and of the response (deleted_documents, deleted_persons,
\* deleted_chunks) are the numbers of rows removed.
C28_ReceiptAndCountsMatch ==
    [][(HardDeleteStep /\ response'.confirm) =>
          /\ \A d \in documents' :
                 ~(d.deleted_at # NoTime /\ d.deleted_at + RETENTION_DAYS < clock)
          /\ \A x \in DOMAIN persons' :
                 ~(/\ persons'[x].deleted_at # NoTime
                   /\ persons'[x].deleted_at + RETENTION_DAYS < clock)
          /\ Len(deletion_log') = Len(deletion_log) + 1
          /\ Prefix(deletion_log', Len(deletion_log)) = deletion_log
          /\ Range(NewReceipt.doc_ids) = {d.id : d \in RemovedDocuments}
          /\ Len(NewReceipt.doc_ids) = Cardinality(RemovedDocuments)
          /\ Range(NewReceipt.person_ids) = RemovedPersons
          /\ Len(NewReceipt.person_ids) = Cardinality(RemovedPersons)
          /\ NewReceipt.deleted_documents = Cardinality(RemovedDocuments)
          /\ NewReceipt.deleted_persons = Cardinality(RemovedPersons)
          /\ response'.deleted_documents = Cardinality(RemovedDocuments)
          /\ response'.deleted_persons = Cardinality(RemovedPersons)
          /\ response'.deleted_chunks = Cardinality(RemovedChunks)]_vars

\* An update_entity request is answered by this step with an UpdateResponse.
UpdateStep ==
    served' # served /\ response'.op = "update" /\ response'.status = 200
\* The row the request names, before and after the step.
RowBefore ==
    IF response'.entity_type = "document"
    THEN CHOOSE d \in documents : d.id = response'.id
    ELSE persons[response'.id]
RowAfter ==
    IF response'.entity_type = "document"
    THEN CHOOSE d \in documents' : d.id = response'.id
    ELSE persons'[response'.id]
Allowlist ==
    IF response'.entity_type = "document" THEN DOCUMENT_UPDATABLE
    ELSE PERSON_UPDATABLE
\* The column value a diff asks for.
Requested(field, v) == IF field = "pii" THEN Lower(v) = "true" ELSE v

\* C29: a PUT whose row has updated_at later than client_updated_at changes
\* no field, enqueues nothing and answers conflict_detected=true with no
\* updated_fields; any other PUT applies the allow-listed diffs, enqueues
\* exactly one entity_updated event, lists in updated_fields exactly the
\* fields that were changed, and modifies no field outside the allowlist.
C29_UpdateAppliesOrConflicts ==
    [][UpdateStep =>
          LET diffs == response'.diffs
              safe == DOMAIN diffs \cap Allowlist
          IN IF RowBefore.updated_at # NoTime
                /\ RowBefore.updated_at > response'.client_updated_at
             THEN /\ RowAfter = RowBefore
                  /\ outbox' = outbox
                  /\ response'.conflict_detected
                  /\ response'.updated_fields = {}
             ELSE /\ ~response'.conflict_detected
                  /\ \A f \in safe :
                         IF diffs[f] # NULL
                         THEN /\ RowAfter[f] = Requested(f, diffs[f])
                              /\ f \in response'.updated_fields
                         ELSE \/ /\ f \in response'.updated_fields
                                 /\ RowAfter[f] = NULL
                              \/ /\ f \notin response'.updated_fields
                                 /\ RowAfter[f] = RowBefore[f]
                  /\ response'.updated_fields \subseteq safe
                  /\ Len(outbox') = Len(outbox) + 1
                  /\ Prefix(outbox', Len(outbox)) = outbox
                  /\ outbox'[Len(outbox')].event_type = "entity_updated"
                  /\ outbox'[Len(outbox')].entity_id = response'.id
                  /\ \A f \in DOMAIN RowBefore \ (Allowlist \cup {"updated_at"}) :
                         RowAfter[f] = RowBefore[f]]_vars

\* ---- entity resolution: Jaro-Winkler, pair scores, canary guard ----
\* A name is the list of its characters; an email is the list of its parts
\* with "@" as a part of its own.  A score is a fraction <<numerator,
\* denominator>>, a threshold is given in hundredths.

JohnSmith == <<"J", "o", "h", "n", " ", "S", "m", "i", "t", "h">>
JaneSmith == <<"J", "a", "n", "e", " ", "S", "m", "i", "t", "h">>
JonSmith == <<"J", "o", "n", " ", "S", "m", "i", "t", "h">>
johnsmith == <<"j", "o", "h", "n", " ", "s", "m", "i", "t", "h">>

\* The known-distinct pair of the stored canary list.
CanaryPair ==
    [name1 |-> JohnSmith, email1 |-> <<"john", "@", "acme.com">>,
     name2 |-> JaneSmith, email2 |-> <<"jane", "@", "contoso.com">>]
CanaryPairs == <<CanaryPair>>

PairPool ==
    {CanaryPair,
     [name1 |-> JonSmith, email1 |-> <<"jon", "@", "acme.com">>,
      name2 |-> JohnSmith, email2 |-> <<"john", "@", "acme.com">>],
     [name1 |-> JohnSmith, email1 |-> <<>>,
      name2 |-> johnsmith, email2 |-> <<>>],
     [name1 |-> <<"B", "r", "a", "i", "n">>, email1 |-> <<"b", "@", "ACME.com">>,
      name2 |-> <<"B", "r", "i", "a", "n">>, email2 |-> <<"x", "@", "acme.com">>],
     [name1 |-> <<"A", "n", "n">>, email1 |-> <<"ann", "@", "acme.com">>,
      name2 |-> <<"B", "o", "b">>, email2 |-> <<"bob", "@", "acme.com">>]}
PairLists == UNION {[1..n -> PairPool] : n \in 0..MaxPairs}
Thresholds == {25, 85, PRODUCTION_THRESHOLD, 99}

\* str.lower() on the characters and email parts in use.
LowerPart(c) ==
    CASE c = "J" -> "j" [] c = "S" -> "s" [] c = "B" -> "b" [] c = "A" -> "a"
      [] c = "ACME.com" -> "acme.com" [] OTHER -> c
RECURSIVE LowerAll(_)
LowerAll(str) ==
    IF str = <<>> THEN <<>>
    ELSE <<LowerPart(Head(str))>> \o LowerAll(Tail(str))

\* The inner loop of _jaro: the first unmatched j in lo..hi with s1[i] = s2[j],
\* or 0.
RECURSIVE FirstMatch(_, _, _, _, _, _)
FirstMatch(s1, s2, i, j, hi, s2_matches) ==
    IF j > hi THEN 0
    ELSE IF j \in s2_matches \/ s1[i] # s2[j]
    THEN FirstMatch(s1, s2, i, j + 1, hi, s2_matches)
    ELSE j

\* The outer loop of _jaro: the matched positions of both strings.
RECURSIVE MatchLoop(_, _, _, _, _)
MatchLoop(s1, s2, i, match_dist, st) ==
    IF i > Len(s1) THEN st
    ELSE LET lo == Max2(1, i - match_dist)
             hi == Min2(i + match_dist, Len(s2))
             j == FirstMatch(s1, s2, i, lo, hi, st.s2_matches)
         IN MatchLoop(s1, s2, i + 1, match_dist,
                IF j = 0 THEN st
                ELSE [s1_matches |-> st.s1_matches \cup {i},
                      s2_matches |-> st.s2_matches \cup {j}])

\* The characters of a string at its matched positions, in order.
RECURSIVE MatchedChars(_, _, _)
MatchedChars(str, matched, i) ==
    IF i > Len(str) THEN <<>>
    ELSE (IF i \in matched THEN <<str[i]>> ELSE <<>>)
         \o MatchedChars(str, matched, i + 1)

\* _jaro(s1, s2) as a fraction.
jaro(s1, s2) ==
    IF s1 = s2 THEN <<1, 1>>
    ELSE IF Len(s1) = 0 \/ Len(s2) = 0 THEN <<0, 1>>
    ELSE LET len1 == Len(s1)
             len2 == Len(s2)
             match_dist == Max2(Max2(len1, len2) \div 2 - 1, 0)
             st == MatchLoop(s1, s2, 1, match_dist,
                       [s1_matches |-> {}, s2_matches |-> {}])
             matches == Cardinality(st.s1_matches)
             m1 == MatchedChars(s1, st.s1_matches, 1)
             m2 == MatchedChars(s2, st.s2_matches, 1)
             transpositions == Cardinality({k \in 1..matches : m1[k] # m2[k]})
         IN IF matches = 0 THEN <<0, 1>>
            ELSE <<2 * matches * matches * len2 + 2 * matches * matches * len1
                       + (2 * matches - transpositions) * len1 * len2,
                   6 * matches * len1 * len2>>

\* The loop over zip(s1[:4], s2[:4]).
RECURSIVE CommonPrefix(_, _, _)
CommonPrefix(s1, s2, i) ==
    IF i > 4 \/ i > Len(s1) \/ i > Len(s2) THEN 0
    ELSE IF LowerPart(s1[i]) = LowerPart(s2[i])
    THEN 1 + CommonPrefix(s1, s2, i + 1)
    ELSE 0

\* Mutant: the prefix scale p is 0.25 instead of 0.1.
jaro_winkler_QuarterPrefix(s1, s2) ==
    LET j == jaro(LowerAll(s1), LowerAll(s2))
        prefix == CommonPrefix(s1, s2, 1)
    IN <<4 * j[1] + prefix * (j[2] - j[1]), 4 * j[2]>>

\* jaro_winkler(s1, s2) with p = 0.1: jaro + prefix * p * (1 - jaro)
jaro_winkler(s1, s2) ==
    LET j == jaro(LowerAll(s1), LowerAll(s2))
        prefix == CommonPrefix(s1, s2, 1)
    IN <<10 * j[1] + prefix * (j[2] - j[1]), 10 * j[2]>>

score_pair_a(name1, name2) == jaro_winkler(name1, name2)

\* _get_domain: the parts after the last "@", lowered; "" without an "@".
RECURSIVE get_domain(_)
get_domain(email) ==
    IF \A i \in DOMAIN email : email[i] # "@" THEN <<>>
    ELSE IF \A i \in DOMAIN Tail(email) : Tail(email)[i] # "@"
    THEN LowerAll(Tail(email))
    ELSE get_domain(Tail(email))

\* 0.6 * name_score + 0.3 * domain_score + 0.1 * min(shared_docs / 5, 1)
score_pair_b(name1, email1, name2, email2, shared_docs) ==
    LET name_score == jaro_winkler(name1, name2)
        domain1 == get_domain(email1)
        domain2 == get_domain(email2)
        domain_score == IF domain1 # <<>> /\ domain1 = domain2 THEN 1 ELSE 0
        doc_fifths == Min2(shared_docs, 5)
    IN <<30 * name_score[1] + (15 * domain_score + doc_fifths) * name_score[2],
         50 * name_score[2]>>

\* score >= threshold, the threshold in hundredths.
AtLeast(score, threshold) == 100 * score[1] >= threshold * score[2]

RECURSIVE check_canary_guard(_, _)
check_canary_guard(canary_pairs, threshold) ==
    IF canary_pairs = <<>> THEN <<>>
    ELSE LET pair == Head(canary_pairs)
             score_a == score_pair_a(pair.name1, pair.name2)
             score_b == score_pair_b(pair.name1, pair.email1,
                                     pair.name2, pair.email2, 0)
         IN (IF AtLeast(score_a, threshold) \/ AtLeast(score_b, threshold)
             THEN <<[pair |-> pair, score_a |-> score_a, score_b |-> score_b]>>
             ELSE <<>>)
            \o check_canary_guard(Tail(canary_pairs), threshold)

CanaryInit ==
    /\ StoreOff
    /\ \E pairs \in PairLists, threshold \in Thresholds :
           args = [fn |-> "check_canary_guard", canary_pairs |-> pairs,
                   threshold |-> threshold, done |-> FALSE]
    /\ result = <<>>

CallCheckCanaryGuard ==
    /\ args.fn = "check_canary_guard"
    /\ ~args.done
    /\ result' = check_canary_guard(args.canary_pairs, args.threshold)
    /\ args' = [args EXCEPT !.done = TRUE]

CanaryNext == CallCheckCanaryGuard /\ UNCHANGED fnFrame

CanarySpec == CanaryInit /\ [][CanaryNext]_vars

\* The pairs of a violation list.
RECURSIVE ViolationPairs(_)
ViolationPairs(violations) ==
    IF violations = <<>> THEN <<>>
    ELSE <<Head(violations).pair>> \o ViolationPairs(Tail(violations))

\* C30: check_canary_guard returns exactly the pairs, in their order, whose
\* name-only score or combined score is at least the threshold; the canary
\* pair John Smith / Jane Smith scores 0.88 by name and 0.528 combined, is
\* reported at thresholds up to 0.88 and never at the production threshold
\* 0.90, where the stored list yields the empty list.
C30_CanaryGuardExact ==
    (args.fn = "check_canary_guard" /\ args.done) =>
        /\ ViolationPairs(result) =
               SelectSeq(args.canary_pairs,
                   LAMBDA pr :
                       \/ AtLeast(score_pair_a(pr.name1, pr.name2),
                                  args.threshold)
                       \/ AtLeast(score_pair_b(pr.name1, pr.email1, pr.name2,
                                               pr.email2, 0),
                                  args.threshold))
        /\ \A i \in DOMAIN result :
               result[i].pair = CanaryPair =>
                   /\ 25 * result[i].score_a[1] = 22 * result[i].score_a[2]
                   /\ 125 * result[i].score_b[1] = 66 * result[i].score_b[2]
        /\ (\E i \in DOMAIN result : result[i].pair = CanaryPair)
               <=> (/\ \E i \in DOMAIN args.canary_pairs :
                          args.canary_pairs[i] = CanaryPair
                    /\ args.threshold <= 88)
        /\ (args.canary_pairs = CanaryPairs
                /\ args.threshold = PRODUCTION_THRESHOLD) => result = <<>>

\* C30 witness: the guard ran on the stored canary list at the production
\* threshold and reported nothing.
C30_Witness ==
    /\ args.fn = "check_canary_guard"
    /\ args.done
    /\ args.canary_pairs = CanaryPairs
    /\ args.threshold = PRODUCTION_THRESHOLD
    /\ result = <<>>

\* The ids of the batch a poll selected.
SelectedIds(rows) == {rows[k].id : k \in DOMAIN rows}

Drainers == {1, 2}

\* Faults (graph.query raising) the two-drainer behaviours may contain.
MaxPairFaults == 5

\* The row drainer d is handling.
PairRow(d) == Head(dr_rows[d]).id

\* The for loop of drainer d moves to the next row of its batch.
PairRowDone(d) ==
    /\ dr_rows' = [dr_rows EXCEPT ![d] = Tail(@)]
    /\ dr_pc' = [dr_pc EXCEPT ![d] = IF Len(dr_rows[d]) = 1 THEN "select" ELSE "row"]

\* The SELECT of drainer d: a plain read in its own transaction, no row lock
\* is taken, rows another drainer has selected are returned as well.
PairSelect(d) ==
    /\ dr_pc[d] = "select"
    /\ dr_rows' = [dr_rows EXCEPT ![d] = SelectRows(1, OUTBOX_BATCH_SIZE)]
    /\ dr_pc' = [dr_pc EXCEPT ![d] = IF dr_rows'[d] = <<>> THEN "select" ELSE "row"]
    /\ UNCHANGED <<outbox, graph, falkordb_consecutive_errors, applies, written,
                   dr_faults>>

\* if attempts >= OUTBOX_MAX_ATTEMPTS (the attempts read by the SELECT).
PairDeadLetter(d) ==
    /\ dr_pc[d] = "row"
    /\ Head(dr_rows[d]).attempts >= OUTBOX_MAX_ATTEMPTS
    /\ outbox' = [outbox EXCEPT ![PairRow(d)].failed = TRUE,
                                ![PairRow(d)].error = "max attempts exceeded"]
    /\ PairRowDone(d)
    /\ UNCHANGED <<graph, falkordb_consecutive_errors, applies, written, dr_faults>>

\* The mark UPDATE ... WHERE id = %s AND processed_at IS NULL of drainer d.
\* It matches the row ("marked") or, when another drainer marked the row
\* first, matches nothing ("lost"); the code does not read the row count
\* and goes on to the apply in both cases.
PairMark(d) ==
    /\ dr_pc[d] = "row"
    /\ Head(dr_rows[d]).attempts < OUTBOX_MAX_ATTEMPTS
    /\ LET i == PairRow(d) IN
       IF outbox[i].processed_at = NULL
       THEN /\ outbox' = [outbox EXCEPT ![i].processed_at = "set",
                                        ![i].attempts = @ + 1]
            /\ dr_pc' = [dr_pc EXCEPT ![d] = "marked"]
       ELSE /\ outbox' = outbox
            /\ dr_pc' = [dr_pc EXCEPT ![d] = "lost"]
    /\ UNCHANGED <<graph, dr_rows, falkordb_consecutive_errors, applies, written,
                   dr_faults>>

\* _apply_outbox_event of drainer d returns.
PairApplyOk(d) ==
    /\ dr_pc[d] \in {"marked", "lost"}
    /\ LET i == PairRow(d) IN
       /\ graph' = ApplyEvent(graph, outbox[i])
       /\ applies' = [applies EXCEPT ![i] = @ + 1]
       /\ written' = IF IssuesQuery(outbox[i]) THEN CountWrite(i) ELSE written
    /\ falkordb_consecutive_errors' = [falkordb_consecutive_errors EXCEPT ![d] = 0]
    /\ PairRowDone(d)
    /\ UNCHANGED <<outbox, dr_faults>>

\* graph.query of drainer d raises before the query took effect.
PairApplyRaise(d) ==
    /\ dr_pc[d] \in {"marked", "lost"}
    /\ dr_faults < MaxPairFaults
    /\ dr_faults' = dr_faults + 1
    /\ IssuesQuery(outbox[PairRow(d)])
    /\ applies' = [applies EXCEPT ![PairRow(d)] = @ + 1]
    /\ falkordb_consecutive_errors' = [falkordb_consecutive_errors EXCEPT ![d] = @ + 1]
    /\ dr_pc' = [dr_pc EXCEPT ![d] = IF dr_pc[d] = "marked"
                                     THEN "rollback" ELSE "rollback_lost"]
    /\ UNCHANGED <<outbox, graph, dr_rows, written>>

\* The except handler of drainer d: UPDATE outbox SET processed_at = NULL,
\* error = %s, attempts = attempts + 1 WHERE id = %s, whoever set processed_at.
PairRollback(d) ==
    /\ dr_pc[d] \in {"rollback", "rollback_lost"}
    /\ outbox' = [outbox EXCEPT ![PairRow(d)].processed_at = NULL,
                                ![PairRow(d)].error = "exc",
                                ![PairRow(d)].attempts = @ + 1]
    /\ falkordb_consecutive_errors' =
          [falkordb_consecutive_errors EXCEPT
              ![d] = IF @ >= FALKORDB_ERROR_THRESHOLD THEN 0 ELSE @]
    /\ PairRowDone(d)
    /\ UNCHANGED <<graph, applies, written, dr_faults>>

\* The outbox of DrainInit, with two drainers about to poll.
PairInit ==
    /\ chunks = <<>>
    /\ w_pc = [w \in Workers |-> "cancelled"]
    /\ w_ids = [w \in Workers |-> {}]
    /\ w_retry_counts = [w \in Workers |-> <<>>]
    /\ consecutive_errors = [w \in Workers |-> 0]
    /\ documents = {[id |-> 1, source_path |-> 1, sha256 |-> 1]}
    /\ persons = <<>>
    /\ \E evs \in [2..NEvents -> EntityEvents] :
          outbox = [i \in 1..NEvents |->
                       IF i = 1
                       THEN NewOutboxRow([event_type |-> "document_added",
                                          doc_id |-> 1, entity_id |-> 0])
                       ELSE NewOutboxRow(evs[i])]
    /\ dead_letter = {}
    /\ write_failed_log = {}
    /\ next_id = 1
    /\ t_pc = [t \in Tasks |-> "idle"]
    /\ t_call = [t \in Tasks |-> NoCall]
    /\ WatcherOff
    /\ graph = [nodes |-> EmptyBag, edges |-> {}]
    /\ dr_pc = [d \in Drainers |-> "select"]
    /\ dr_rows = [d \in Drainers |-> <<>>]
    /\ falkordb_consecutive_errors = [d \in Drainers |-> 0]
    /\ applies = [i \in 1..NEvents |-> 0]
    /\ written = [i \in 1..NEvents |-> 0]
    /\ dr_faults = 0
    /\ ApiOff
    /\ FnOff
    /\ PoolOff

PairNext ==
    \/ \E d \in Drainers : PairSelect(d) /\ UNCHANGED drainFrame
    \/ \E d \in Drainers : PairDeadLetter(d) /\ UNCHANGED drainFrame
    \/ \E d \in Drainers : PairMark(d) /\ UNCHANGED drainFrame
    \/ \E d \in Drainers : PairApplyOk(d) /\ UNCHANGED drainFrame
    \/ \E d \in Drainers : PairApplyRaise(d) /\ UNCHANGED drainFrame
    \/ \E d \in Drainers : PairRollback(d) /\ UNCHANGED drainFrame

PairSpec == PairInit /\ [][PairNext]_vars

\* Drainer d has taken a row: it is between the mark and the end of the
\* row's handling.
Taken(d) ==
    IF dr_pc[d] \in {"marked", "lost", "rollback", "rollback_lost"}
    THEN {PairRow(d)} ELSE {}

\* Drainer d, which did not win the mark of its row, takes its next step.
LoserSteps(d) ==
    /\ dr_pc[d] \in {"lost", "rollback_lost"}
    /\ dr_pc'[d] # dr_pc[d]

\* C32: with two drainers on one outbox, no row is taken by both at a time,
\* and a drainer whose mark UPDATE did not match the row neither applies the
\* event nor resets the processed_at the other drainer set.
C32_RowLevelExclusion ==
    [][/\ Taken(1) \cap Taken(2) = {}
       /\ \A d \in Drainers :
              LoserSteps(d) =>
                  /\ applies'[PairRow(d)] = applies[PairRow(d)]
                  /\ outbox'[PairRow(d)].processed_at =
                         outbox[PairRow(d)].processed_at]_vars

\* -------------------------------------------------- soft_delete, both paths

\* An id no row has.
UnknownId == 9

\* The rows the UPDATE ... WHERE id = %s AND deleted_at IS NULL RETURNING id
\* of soft_delete matches.
\* Mutant: the UPDATE has no `AND deleted_at IS NULL`.
SoftDeleteMatches_AnyRow(entity_type, entity_id) ==
    IF entity_type = "document"
    THEN {d \in documents : d.id = entity_id}
    ELSE {x \in DOMAIN persons : x = entity_id}
SoftDeleteMatches(entity_type, entity_id) ==
    IF entity_type = "document"
    THEN {d \in documents : d.id = entity_id /\ d.deleted_at = NoTime}
    ELSE {x \in DOMAIN persons : x = entity_id /\ persons[x].deleted_at = NoTime}

\* DELETE /entities/{entity_type}/{entity_id}.  The UPDATE and the outbox
\* INSERT run on one connection of the pool, whose block commits at its end
\* and rolls back when an exception leaves it: a 404 raised inside the block
\* and a failed INSERT (insert_ok = FALSE) leave nothing behind.
soft_delete(entity_type, entity_id, insert_ok) ==
    LET matched == SoftDeleteMatches(entity_type, entity_id) IN
    /\ IF matched = {}
       THEN /\ response' = [op |-> "soft_delete", status |-> 404,
                            entity_type |-> entity_type, id |-> entity_id,
                            deleted_at |-> NoTime]
            /\ UNCHANGED <<documents, persons, outbox>>
       ELSE IF ~insert_ok
       THEN /\ response' = [op |-> "soft_delete", status |-> 500,
                            entity_type |-> entity_type, id |-> entity_id,
                            deleted_at |-> NoTime]
            /\ UNCHANGED <<documents, persons, outbox>>
       ELSE /\ IF entity_type = "document"
               THEN /\ documents' = {IF d \in matched
                                     THEN [d EXCEPT !.deleted_at = clock]
                                     ELSE d : d \in documents}
                    /\ UNCHANGED persons
               ELSE /\ persons' = [x \in DOMAIN persons |->
                                      IF x \in matched
                                      THEN [persons[x] EXCEPT !.deleted_at = clock]
                                      ELSE persons[x]]
                    /\ UNCHANGED documents
            /\ outbox' = Append(outbox,
                                NewOutboxRow([event_type |-> "entity_deleted",
                                              doc_id |-> 0, entity_id |-> entity_id]))
            /\ response' = [op |-> "soft_delete", status |-> 200,
                            entity_type |-> entity_type, id |-> entity_id,
                            deleted_at |-> clock]
    /\ UNCHANGED <<cache, clock, config, served, deletion_log, chunks>>

SoftDeleteNext ==
    \/ \E d \in EntityDocs \cup {UnknownId} : \E ok \in BOOLEAN :
          soft_delete("document", d, ok) /\ UNCHANGED entityFrame
    \/ \E x \in EntityPersons \cup {UnknownId} : \E ok \in BOOLEAN :
          soft_delete("person", x, ok) /\ UNCHANGED entityFrame
    \/ Tick /\ UNCHANGED entityFrame

SoftDeleteSpec == EntityInit /\ [][SoftDeleteNext]_vars

\* deleted_at of the row of an entity, NoTime when it is null; UnknownId has
\* no row.
HasRow(docs, pers, entity_type, entity_id) ==
    IF entity_type = "document"
    THEN \E d \in docs : d.id = entity_id
    ELSE entity_id \in DOMAIN pers
DeletedAtOf(docs, pers, entity_type, entity_id) ==
    IF entity_type = "document"
    THEN (CHOOSE d \in docs : d.id = entity_id).deleted_at
    ELSE pers[entity_id].deleted_at

\* The rows other than the one of the entity.
OtherRows(docs, pers, entity_type, entity_id) ==
    IF entity_type = "document"
    THEN <<{d \in docs : d.id # entity_id}, pers>>
    ELSE <<docs, [x \in DOMAIN pers \ {entity_id} |-> pers[x]]>>

\* C33: soft_delete of an existing entity that is not deleted yet answers
\* 200, sets the row's deleted_at to now and appends exactly one
\* entity_deleted event for it, both or neither (a failed INSERT undoes the
\* UPDATE); for an unknown or already deleted id it answers 404, leaves
\* every deleted_at as it was and enqueues nothing.
C33_SoftDeleteOnceOrNotFound ==
    [][IF response' = response
       THEN documents' = documents /\ persons' = persons /\ outbox' = outbox
       ELSE LET t == response'.entity_type
                id == response'.id
                live == /\ HasRow(documents, persons, t, id)
                        /\ DeletedAtOf(documents, persons, t, id) = NoTime
            IN /\ response'.status = 404 <=> ~live
               /\ response'.status # 200 =>
                      documents' = documents /\ persons' = persons /\ outbox' = outbox
               /\ response'.status = 200 =>
                      /\ DeletedAtOf(documents', persons', t, id) = clock
                      /\ response'.deleted_at = clock
                      /\ OtherRows(documents', persons', t, id) =
                             OtherRows(documents, persons, t, id)
                      /\ Len(outbox') = Len(outbox) + 1
                      /\ outbox'[Len(outbox')].event_type = "entity_deleted"
                      /\ outbox'[Len(outbox')].entity_id = id
                      /\ outbox'[Len(outbox')].processed_at = NULL
                      /\ \A i \in DOMAIN outbox : outbox'[i] = outbox[i]]_vars

\* C33 witness: a second soft_delete of a document deleted by the first one
\* was answered 404, with the one event of the first still the only one for
\* the document.
C33_Witness ==
    /\ response.op = "soft_delete"
    /\ response.status = 404
    /\ response.entity_type = "document"
    /\ \E d \in documents : d.id = response.id /\ d.deleted_at = clock
    /\ \E i \in DOMAIN outbox :
          /\ outbox[i].entity_id = response.id
          /\ \A j \in DOMAIN outbox : outbox[j].entity_id = response.id => j = i

\* ------------------------------------------------------ retry_dead_letters

\* RETRY_DELAYS = [2, 8, 32]; MAX_RETRIES = len(RETRY_DELAYS)
MAX_RETRIES == 3

\* Rows of the dead_letter table when retry_dead_letters is called.
NDeadRows == 2
DeadRowIds == 1..NDeadRows
DeadAttempts == {1, MAX_RETRIES, MAX_RETRIES + 1}
DeadLetterRow(id, attempts) ==
    [id |-> id, file_path |-> id, attempts |-> attempts, error |-> "old"]

\* What the try block of a row does: the file is hashed and the handler
\* returns ("ok"), open(file_path) raises because the file is gone or
\* unreadable ("unreadable"), or the handler raises ("handler_raises").
RetryOutcomes == {"ok", "unreadable", "handler_raises"}

retryFrame == <<chunks, workerVars, documents, persons, outbox,
                write_failed_log, next_id, t_pc, t_call, watchVars, drainVars,
                apiVars, poolVars>>

RetryInit ==
    /\ chunks = <<>>
    /\ w_pc = [w \in Workers |-> "cancelled"]
    /\ w_ids = [w \in Workers |-> {}]
    /\ w_retry_counts = [w \in Workers |-> <<>>]
    /\ consecutive_errors = [w \in Workers |-> 0]
    /\ documents = {}
    /\ persons = <<>>
    /\ outbox = <<>>
    /\ \E ids \in SUBSET DeadRowIds : \E att \in [DeadRowIds -> DeadAttempts] :
          dead_letter = {DeadLetterRow(i, att[i]) : i \in ids}
    /\ write_failed_log = {}
    /\ next_id = 0
    /\ t_pc = [t \in Tasks |-> "idle"]
    /\ t_call = [t \in Tasks |-> NoCall]
    /\ WatcherOff
    /\ DrainerOff
    /\ ApiOff
    /\ PoolOff
    /\ args = [fn |-> "retry_dead_letters", pc |-> "select", before |-> {},
               rows |-> <<>>, recovered |-> 0, called |-> {}, unreadable |-> {},
               raised |-> {}]
    /\ result = <<>>

\* SELECT id, file_path, attempts FROM dead_letter ORDER BY last_attempt
\* (rows with a smaller id were attempted earlier).
RetrySelect ==
    /\ args.pc = "select"
    /\ args' = [args EXCEPT
                  !.pc = "rows", !.before = dead_letter,
                  !.rows = [k \in 1..Cardinality(dead_letter) |->
                              CHOOSE r \in dead_letter :
                                 Cardinality({x \in dead_letter : x.id < r.id}) = k - 1]]
    /\ UNCHANGED <<dead_letter, result>>

\* Mutant: the skip test is `attempts >= MAX_RETRIES`.
Skipped_AtMax(attempts) == attempts >= MAX_RETRIES
\* if attempts > MAX_RETRIES: continue
Skipped(attempts) == attempts > MAX_RETRIES

\* One turn of the for loop over the rows read.
RetryDeadLetter(outcome) ==
    /\ args.pc = "rows"
    /\ args.rows # <<>>
    /\ LET row == Head(args.rows) IN
       IF Skipped(row.attempts)
       THEN /\ args' = [args EXCEPT !.rows = Tail(@)]
            /\ UNCHANGED dead_letter
       ELSE IF outcome = "ok"
       THEN \* handle_file returned: DELETE FROM dead_letter WHERE id = %s
            /\ dead_letter' = {r \in dead_letter : r.id # row.id}
            /\ args' = [args EXCEPT !.rows = Tail(@), !.recovered = @ + 1,
                                    !.called = @ \cup {row.id}]
       ELSE \* except Exception: UPDATE dead_letter SET attempts = attempts + 1,
            \* last_attempt = now(), error = str(exc) WHERE id = %s
            /\ dead_letter' = {IF r.id = row.id
                               THEN [r EXCEPT !.attempts = @ + 1, !.error = outcome]
                               ELSE r : r \in dead_letter}
            /\ args' = [args EXCEPT
                          !.rows = Tail(@),
                          !.called = IF outcome = "handler_raises"
                                     THEN @ \cup {row.id} ELSE @,
                          !.unreadable = IF outcome = "unreadable"
                                         THEN @ \cup {row.id} ELSE @,
                          !.raised = IF outcome = "handler_raises"
                                     THEN @ \cup {row.id} ELSE @]
    /\ UNCHANGED result

\* return recovered
RetryReturn ==
    /\ args.pc = "rows"
    /\ args.rows = <<>>
    /\ result' = args.recovered
    /\ args' = [args EXCEPT !.pc = "done"]
    /\ UNCHANGED dead_letter

RetryNext ==
    \/ RetrySelect /\ UNCHANGED retryFrame
    \/ \E outcome \in RetryOutcomes : RetryDeadLetter(outcome) /\ UNCHANGED retryFrame
    \/ RetryReturn /\ UNCHANGED retryFrame

RetrySpec == RetryInit /\ [][RetryNext]_vars

\* The row of the table with the id of r, as a set.
RowNow(r) == {x \in dead_letter : x.id = r.id}

\* The rows of the call's SELECT that are gone from the table.
RetryDeleted == {r \in args.before : RowNow(r) = {}}

\* The three cases of a row once retry_dead_letters has returned: skipped,
\* handler returned, handler raised.
RetryCases(r) ==
    /\ r.attempts > MAX_RETRIES =>
          r.id \notin args.called /\ RowNow(r) = {r}
    /\ (r.id \in args.called /\ r.id \notin args.raised) => RowNow(r) = {}
    /\ r.id \in args.raised =>
          RowNow(r) = {[r EXCEPT !.attempts = @ + 1, !.error = "handler_raises"]}

AfterErrorIteration(n) ==
    IF n + 1 >= CONSECUTIVE_ERROR_THRESHOLD THEN 0 ELSE n + 1

\* C35: consecutive_errors of a worker counts the consecutive iterations that
\* ended in error: an iteration in which the embedding call or a store call
\* failed adds 1 (and at the threshold the counter restarts from 0), and an
\* iteration that completes without error, an empty poll included, sets it
\* to 0.
C35_BreakerCountsConsecutiveErrors ==
    [][\A w \in Workers :
          /\ (ClaimCommit(w) /\ w_ids[w] = {}) => consecutive_errors'[w] = 0
          /\ EmbedOk(w) => consecutive_errors'[w] = 0
          /\ (\/ ClaimFail(w)
              \/ apply_retry_updates(w)
              \/ ApplyFail(w)
              \/ \E c \in ChunkIds : FallbackOtherError(w, c)) =>
                 consecutive_errors'[w] = AfterErrorIteration(consecutive_errors[w])]_vars

\* C36: the stored retry_count of a chunk never decreases, whatever
\* operation touches the chunk: a worker's failure paths, the fallback, the
\* success write and the operator's retry-errors reset.
C36_RetryCountNeverDecreases ==
    [][\A c \in ChunkIds :
          chunks'[c].retry_count >= chunks[c].retry_count]_vars

\* C36 amended: no step of a worker decreases the retry_count of a chunk;
\* the only operation that does is the operator's retry-errors reset, which
\* sets the retry_count of a failed chunk to 0 and its status to pending.
C36_OnlyOperatorResetDecreases ==
    [][\A c \in ChunkIds :
          chunks'[c].retry_count < chunks[c].retry_count =>
              /\ retry_errors
              /\ chunks[c].status = "failed"
              /\ chunks'[c].status = "pending"
              /\ chunks'[c].retry_count = 0]_vars

\* C36 witness: a chunk reached retry_max through the failure paths and is
\* failed, while another chunk, bumped once, is pending again.
C36_Witness ==
    \E c \in ChunkIds : \E d \in ChunkIds :
        /\ chunks[c].status = "failed"
        /\ chunks[c].retry_count = retry_max
        /\ chunks[d].status = "pending"
        /\ chunks[d].retry_count = 1

\* C37: when an iteration of a worker ends without the task having been
\* cancelled, none of the chunks the worker still held from its claim is
\* left 'processing': each is 'done', 'pending' or 'failed'.
C37_IterationLeavesNoneProcessing ==
    [][\A w \in Workers :
          (w_pc[w] \in {"embed", "fallback", "apply"} /\ w_pc'[w] = "poll") =>
              \A c \in w_ids[w] : chunks'[c].status # "processing"]_vars

\* ------------------------------------------------------------ merge forest

\* Following merged_into from person x reaches a person with a null
\* merged_into within n steps.
RECURSIVE ReachesRoot(_, _)
ReachesRoot(x, n) ==
    IF x \notin DOMAIN persons THEN FALSE
    ELSE IF persons[x].merged_into = 0 THEN TRUE
    ELSE IF n = 0 THEN FALSE
    ELSE ReachesRoot(persons[x].merged_into, n - 1)

\* C38: after any sequence of merges merged_into is a forest: no person is
\* merged into itself, no two persons are merged into each other, and the
\* chain of merged_into from every person ends at a person whose
\* merged_into is null.
C38_MergedIntoIsForest ==
    /\ \A x \in DOMAIN persons : persons[x].merged_into # x
    /\ \A x \in DOMAIN persons : \A y \in DOMAIN persons :
          ~(x # y /\ persons[x].merged_into = y /\ persons[y].merged_into = x)
    /\ \A x \in DOMAIN persons : ReachesRoot(x, Cardinality(DOMAIN persons))

\* ------------------------------------------------- shared connection pool

\* AsyncConnectionPool objects one behaviour creates.
MaxPools == 2

poolFrame == <<chunks, workerVars, documents, persons, outbox, dead_letter,
               write_failed_log, next_id, t_pc, t_call, watchVars, drainVars,
               apiVars, fnVars>>

\* The tasks run on one event loop: a task runs from one await to the next
\* without interruption, and every action below is one such stretch.

\* `except Exception` of get_pool: when _pool is set, close it (awaited,
\* errors suppressed) and then reset the handle; the exception is raised
\* to the caller, which gets no pool.
PoolExcept(t) ==
    IF pool # 0
    THEN /\ pools' = [pools EXCEPT ![pool] = "failed"]
         /\ pl_task' = [pl_task EXCEPT ![t].pc = "cleanup"]
         /\ UNCHANGED pool
    ELSE /\ pl_task' = [pl_task EXCEPT ![t].pc = "idle", ![t].obj = 0]
         /\ UNCHANGED <<pool, pools>>

\* get_pool up to its first await.  _pool is None: the pool object is
\* constructed with open=False and assigned to _pool, then open() is
\* awaited.  _pool is set: it is returned as it is.
GetPool(t) ==
    /\ pl_task[t].pc = "idle"
    /\ IF pool = 0
       THEN /\ Len(pools) < MaxPools
            /\ pools' = Append(pools, "created")
            /\ pool' = Len(pools) + 1
            /\ pl_task' = [pl_task EXCEPT ![t].pc = "open", ![t].obj = Len(pools) + 1]
       ELSE /\ pl_task' = [pl_task EXCEPT
                             ![t].got = [pool |-> pool, state |-> pools[pool]]]
            /\ UNCHANGED <<pool, pools>>

\* await _pool.open() returns.
PoolOpenOk(t) ==
    /\ pl_task[t].pc = "open"
    /\ pools[pl_task[t].obj] = "created"
    /\ pools' = [pools EXCEPT ![pl_task[t].obj] = "open"]
    /\ pl_task' = [pl_task EXCEPT ![t].pc = "register"]
    /\ UNCHANGED pool

\* await _pool.open() raises (store unreachable, pool closed meanwhile).
PoolOpenFail(t) ==
    /\ pl_task[t].pc = "open"
    /\ PoolExcept(t)

\* async with _pool.connection(): register_vector_async(conn), then
\* return _pool.  _pool is read again: None (AttributeError) or a closed pool
\* (PoolClosed) lead to the except branch.
PoolRegisterOk(t) ==
    /\ pl_task[t].pc = "register"
    /\ IF pool = 0 \/ (pool # 0 /\ pools[pool] \notin {"open", "ready"})
       THEN PoolExcept(t)
       ELSE /\ pools' = [pools EXCEPT ![pool] = "ready"]
            /\ pl_task' = [pl_task EXCEPT
                             ![t].pc = "idle", ![t].obj = 0,
                             ![t].got = [pool |-> pool, state |-> "ready"]]
            /\ UNCHANGED pool

\* The registration raises (no vector extension, connection lost).
PoolRegisterFail(t) ==
    /\ pl_task[t].pc = "register"
    /\ PoolExcept(t)

\* The close of the except branch has returned: _pool = None; raise.
PoolCleanupDone(t) ==
    /\ pl_task[t].pc = "cleanup"
    /\ pool' = 0
    /\ pl_task' = [pl_task EXCEPT ![t].pc = "idle", ![t].obj = 0]
    /\ UNCHANGED pools

\* close_pool up to its await: nothing to do when _pool is None.
ClosePool(t) ==
    /\ pl_task[t].pc = "idle"
    /\ pool # 0
    /\ pl_task' = [pl_task EXCEPT ![t].pc = "closing", ![t].obj = pool]
    /\ UNCHANGED <<pool, pools>>

\* await _pool.close() has returned or raised; finally: _pool = None.
ClosePoolDone(t) ==
    /\ pl_task[t].pc = "closing"
    /\ pools' = [pools EXCEPT ![pl_task[t].obj] = "closed"]
    /\ pool' = 0
    /\ pl_task' = [pl_task EXCEPT ![t].pc = "idle", ![t].obj = 0]

PoolInit == StoreOff /\ FnOff

PoolNext ==
    \/ \E t \in PoolTasks : GetPool(t) /\ UNCHANGED poolFrame
    \/ \E t \in PoolTasks : PoolOpenOk(t) /\ UNCHANGED poolFrame
    \/ \E t \in PoolTasks : PoolOpenFail(t) /\ UNCHANGED poolFrame
    \/ \E t \in PoolTasks : PoolRegisterOk(t) /\ UNCHANGED poolFrame
    \/ \E t \in PoolTasks : PoolRegisterFail(t) /\ UNCHANGED poolFrame
    \/ \E t \in PoolTasks : PoolCleanupDone(t) /\ UNCHANGED poolFrame
    \/ \E t \in PoolTasks : ClosePool(t) /\ UNCHANGED poolFrame
    \/ \E t \in PoolTasks : ClosePoolDone(t) /\ UNCHANGED poolFrame

PoolSpec == PoolInit /\ [][PoolNext]_vars

\* C39: a pool get_pool returned was fully initialised when it was returned
\* (opened and the vector extension registered), and no task holds a pool
\* whose initialisation failed.
C39_OnlyReadyPoolHandedOut ==
    \A t \in PoolTasks :
        pl_task[t].got # NoPool =>
            /\ pl_task[t].got.state = "ready"
            /\ pools[pl_task[t].got.pool] # "failed"

\* ------------------------------------------- concurrent update_entity calls

\* Two PUT /entities/person/{id} requests are handled at the same time, each
\* on its own connection of the pool (READ COMMITTED).  args holds the locals
\* of each call (its position, arguments, `now`, and the updated_at its
\* SELECT returned) and result the response of each call.
Callers == {1, 2}

NoPut == [pc |-> "start", entity_id |-> 0, diffs |-> <<>>,
          client_ts |-> 0, now |-> 0]

putFrame == <<workerVars, dead_letter, write_failed_log, next_id, t_pc,
              t_call, watchVars, drainVars, poolVars>>

PutInit ==
    /\ chunks = EntityChunks
    /\ w_pc = [w \in Workers |-> "cancelled"]
    /\ w_ids = [w \in Workers |-> {}]
    /\ w_retry_counts = [w \in Workers |-> <<>>]
    /\ consecutive_errors = [w \in Workers |-> 0]
    /\ documents = {EntityDocumentRow(1, NoTime), EntityDocumentRow(2, NoTime)}
    /\ \E t \in OldDeletions \cup {NoTime} :
           persons = [x \in EntityPersons |->
                         EntityPersonRow(x, IF x = 3 THEN t ELSE NoTime)]
    /\ outbox = <<>>
    /\ dead_letter = {}
    /\ write_failed_log = {}
    /\ next_id = 0
    /\ t_pc = [t \in Tasks |-> "idle"]
    /\ t_call = [t \in Tasks |-> NoCall]
    /\ WatcherOff
    /\ DrainerOff
    /\ ApiOff
    /\ PoolOff
    /\ args = [c \in Callers |-> NoPut]
    /\ result = [c \in Callers |-> NoResponse]

\* update_entity up to the await of its UPDATE: the diffs are filtered, the
\* row's updated_at is read and compared with client_updated_at.  A 400, a
\* 404 and a conflict are answered here; otherwise the call goes on to write.
PutRead(c, entity_id, diffs, client_ts) ==
    LET safe_keys == DOMAIN diffs \cap PERSON_UPDATABLE
        rows == LiveRows("person", entity_id)
        server_ts == (CHOOSE r \in rows : TRUE).updated_at
    IN /\ args[c].pc = "start"
       /\ IF safe_keys = {}
          THEN /\ result' = [result EXCEPT ![c] =
                     UpdateResponse(400, "person", entity_id, diffs, client_ts,
                                    {}, FALSE)]
               /\ args' = [args EXCEPT ![c].pc = "done"]
          ELSE IF rows = {}
          THEN /\ result' = [result EXCEPT ![c] =
                     UpdateResponse(404, "person", entity_id, diffs, client_ts,
                                    {}, FALSE)]
               /\ args' = [args EXCEPT ![c].pc = "done"]
          ELSE IF server_ts # NoTime /\ server_ts > client_ts
          THEN /\ result' = [result EXCEPT ![c] =
                     UpdateResponse(200, "person", entity_id, diffs, client_ts,
                                    {}, TRUE)]
               /\ args' = [args EXCEPT ![c].pc = "done"]
          ELSE /\ args' = [args EXCEPT ![c] =
                     [pc |-> "write", entity_id |-> entity_id, diffs |-> diffs,
                      client_ts |-> client_ts, now |-> clock]]
               /\ UNCHANGED result
       /\ UNCHANGED <<persons, outbox>>

\* The UPDATE ... WHERE id = %s and the outbox INSERT of a call whose check
\* found no conflict, committed at the end of the connection block.  The
\* UPDATE has no condition on updated_at or deleted_at: it applies to the row
\* as it is now.
PutWrite(c) ==
    LET call == args[c]
        safe_keys == DOMAIN call.diffs \cap PERSON_UPDATABLE
    IN /\ call.pc = "write"
       /\ persons' = [persons EXCEPT ![call.entity_id] =
                         UpdatedPerson(@, call.diffs, call.now)]
       /\ outbox' = Append(outbox,
              NewOutboxRow([event_type |-> "entity_updated", doc_id |-> 0,
                            entity_id |-> call.entity_id]))
       /\ result' = [result EXCEPT ![c] =
              UpdateResponse(200, "person", call.entity_id, call.diffs,
                             call.client_ts, safe_keys, FALSE)]
       /\ args' = [args EXCEPT ![c].pc = "done"]

\* Time passes between the requests.
PutTick ==
    /\ clock < MaxClock
    /\ clock' = clock + 1
    /\ UNCHANGED <<args, result, persons, outbox>>

PutNext ==
    \/ \E c \in Callers, x \in EntityPersons, diffs \in PersonDiffs,
          ts \in ClientTimes :
          /\ PutRead(c, x, diffs, ts)
          /\ UNCHANGED <<clock, cache, config, response, served, deletion_log,
                         chunks, documents>>
          /\ UNCHANGED putFrame
    \/ \E c \in Callers :
          /\ PutWrite(c)
          /\ UNCHANGED <<clock, cache, config, response, served, deletion_log,
                         chunks, documents>>
          /\ UNCHANGED putFrame
    \/ /\ PutTick
       /\ UNCHANGED <<cache, config, response, served, deletion_log, chunks,
                      documents>>
       /\ UNCHANGED putFrame

PutSpec == PutInit /\ [][PutNext]_vars

\* C40: when a call of update_entity writes, the stored updated_at of the
\* row is not beyond the call's client_updated_at; a call that finds it
\* beyond (another call's write came first) is answered as a conflict and
\* changes neither the row nor the outbox.
C40_StaleConcurrentPutConflicts ==
    [][\A c \in Callers :
          (args[c].pc = "write" /\ args'[c].pc = "done") =>
              LET row == persons[args[c].entity_id] IN
              (row.updated_at # NoTime /\ row.updated_at > args[c].client_ts) =>
                  /\ result'[c].conflict_detected
                  /\ persons' = persons
                  /\ outbox' = outbox]_vars

====
